---- MODULE Spec2Model ----
(***************************************************************************)
(* Verification model of the computational core of utf2_benchmark:         *)
(*   - src/utf/models/coupled_superop.py  (CoupledUTFSimulator, tau_crit)  *)
(*   - src/utf/falsification/test_F_false_chaos_amplification.py           *)
(*   - src/utf/falsification/test_DF_coupling_variation.py                 *)
(*                                                                         *)
(* Floating-point numbers are modelled as rounded fixed-point numbers: a   *)
(* finite value v stands for v / SCALE, every product and quotient is      *)
(* rounded to that grid, a result beyond MaxFin overflows to an infinity,  *)
(* and the IEEE special values (NaN, +inf, -inf) propagate as in IEEE-754. *)
(* Numeric literals of the source are written FxLit(num, den), their       *)
(* value rounded to the grid.                                              *)
(***************************************************************************)
EXTENDS Integers, Sequences, FiniteSets, TLC

VARIABLES
  \* tau_crit called on a pair of arguments
  tauPc, tauL1, tauL2, tauR1, tauR2,
  \* one call of falsify_F_operator(steps, tolerance, r)
  fPc,        \* "warmup", "loop", "done"
  fSteps, fTol, fR,
  fX0, fX1,   \* the two logistic trajectories
  fAvg,       \* E0_avg
  fWarm,      \* warm-up iterations done
  fI,         \* iterations of the main loop begun
  fRel,       \* rel_dE of the latest iteration
  fPrevRel,   \* rel_dE of the iteration before it
  fTraceLen,  \* len(E_trace0) = len(E_trace1)
  fResult,    \* "none", "True", "False"
  \* one call of falsify_DF_operator on df_coupling_simulation(steps, gamma, coupling)
  dfPc,       \* "sim", "check", "done"
  dfSteps, dfGamma, dfCoupling,
  dfT,        \* loop index t of df_coupling_simulation
  dfAmp,      \* amp
  dfEcl,      \* E_classical
  dfData,     \* results: rows (t, amp_next, E_classical, E_total)
  dfResult,   \* "none", "True", "False"
  dfWhy,      \* which check decided: "none", "energy", "corr", "ok"
  dfMetric,   \* the quantity printed with the verdict
  \* a CoupledUTFSimulator object and its run() calls
  self_p,        \* self.p: the UTFParams given to the constructor
  self_rng,      \* self.rng: the state of the object's random generator
  rho0Arg,    \* run's argument rho0: <<>> for None, else a 2x2 matrix
  rArg,       \* run's argument r
  simPc,      \* "idle" (constructed), "warmup", "loop", "done" (run returned)
  simObj,     \* how many simulator objects have been constructed
  runNo,      \* how many run() calls have begun on the current object
  runsTotal,  \* how many run() calls have begun in all
  rho,        \* the density matrix rho
  run_x0, run_x1,\* the two warm-up trajectories
  run_x,      \* the chaos value x
  warm,       \* warm-up iterations done
  run_n,      \* iterations of the stepping loop done
  stepAt,     \* position inside the loop body: "chaos", "generators",
              \* "commutator", "euler", "hermitize", "renormalize", "record"
  xdot,       \* xdot of the current iteration
  LT, LD, LF, Lcomm,  \* the four generator terms of the current iteration
  E_trace, drift_trace,
  eps, kick,  \* epsilon of _H_t and k of _L_F in the latest step
  traceBad,   \* some renormalization of this run divided by a zero or non-finite trace
  rngStart,   \* generator state when the current run began
  result,     \* what the latest run() returned: <<>> or <<E_arr, stats>>
  firstRun,   \* the first run() of the first object: <<>> or [rng, result]
  \* decohere(rho, gamma, dt) on given arguments, then falsify_D_operator(steps)
  dPc,        \* "call", "begin", "loop", "done"
  dRhoIn, dGamma, dDt,  \* the arguments of the decohere call
  dOut,       \* what that call returned
  dSteps,     \* falsify_D_operator's argument
  dRho,       \* rho of falsify_D_operator
  dLast,      \* last_purity
  dNow,       \* p_now
  dT,         \* loop index t
  dResult,    \* "none", "True", "False"
  \* the files of the tuning workflow
  sweepFiles, \* per sweep path: [exists, rows], rows of (r, tolerance, adapt, passed)
  logFile,    \* the tuning log: [exists, lines]
  \* one call of run_local_tuning(csv_path)
  tunePc,     \* "start", "read", "select", "log", "done"
  tuneCsvPath,
  tuneDf,     \* df: the rows read from csv_path
  tuneStable, \* stable: the rows of df with passed == True
  tuneBest,   \* result: <<>> or [r, tolerance, adapt]
  tuneReport, \* what was printed: "none", "no-stable", "best-fit"
  tuneError,  \* "none" or the exception that ended the call
  tuneLog0,   \* the tuning log as it was when the call began
  \* calls of log_tuning_result(best_fit, num_samples) by callers of one log path
  logPc,      \* per caller: "idle", "checked", "done"
  logHdr,     \* per caller: its local header
  logArg,     \* per caller: the row its arguments make
  logCalls,   \* the rows of the calls begun so far, in call order
  logPar,     \* whether calls may interleave
  \* Transfuser objects and numpy's global random generator
  np_random,  \* the state of the global generator behind np.random.*
  tfPc,       \* per object: "absent", "built", "running" (in run_kernel), "ran"
  tfSeedArg,  \* per object: the seed argument of its constructor
  tfSeed,     \* per object: self.seed
  tfSteps,    \* the steps argument of the run_kernel calls
  tfCur,      \* the object whose run_kernel is executing, NoTransfuser if none
  tfK,        \* the locals of the executing run_kernel
  tfResult,   \* per object: <<>> or what run_kernel returned
  \* the falsification battery (run_all_falsifications.main)
  batPc,       \* "loop", "summary", "exited"
  batOutcomes, \* what happened to each module run so far: "true", "false", "raise", "import_error"
  batResults,  \* main's results list
  batTime,     \* main's total_time
  batCalled,   \* the function names run_module was called with, in call order
  batReport,   \* the summary line printed: "none", "all_passed", "some_passed"
  batExit,     \* the process exit status, NoExit while the process runs
  \* the readers of the tuning log (visualizer.py, visualizer_release.py)
  vizPc,      \* "start", "returned"
  vizFile,    \* the file at csv_path: each data line is its number of fields
  vizReader,  \* which reader was called: "none", "plot_history", "plot_release_annotated"
  vizOutcome, \* "none", "no_history", "empty", "plotted", "ParserError"
  vizRows     \* the data lines (by position) that reached the plot

tauVars == <<tauPc, tauL1, tauL2, tauR1, tauR2>>
fVars == <<fPc, fSteps, fTol, fR, fX0, fX1, fAvg, fWarm, fI, fRel, fPrevRel,
           fTraceLen, fResult>>
dfVars == <<dfPc, dfSteps, dfGamma, dfCoupling, dfT, dfAmp, dfEcl, dfData,
            dfResult, dfWhy, dfMetric>>
simVars == <<self_p, self_rng, rho0Arg, rArg, simPc, simObj, runNo, runsTotal,
             rho, run_x0, run_x1, run_x, warm, run_n, stepAt, xdot, LT, LD, LF, Lcomm, E_trace, drift_trace, eps, kick, traceBad, rngStart,
             result, firstRun>>
dVars == <<dPc, dRhoIn, dGamma, dDt, dOut, dSteps, dRho, dLast, dNow, dT, dResult>>
fileVars == <<sweepFiles, logFile>>
tuneVars == <<tunePc, tuneCsvPath, tuneDf, tuneStable, tuneBest, tuneReport, tuneError,
              tuneLog0>>
logVars == <<logPc, logHdr, logArg, logCalls, logPar>>
tfVars == <<np_random, tfPc, tfSeedArg, tfSeed, tfSteps, tfCur, tfK, tfResult>>
batVars == <<batPc, batOutcomes, batResults, batCalled, batTime, batReport, batExit>>
vizVars == <<vizPc, vizFile, vizReader, vizOutcome, vizRows>>
laterVars == <<dVars, fileVars, tuneVars, logVars, tfVars, batVars, vizVars>>
vars == <<tauVars, fVars, dfVars, simVars, laterVars>>

\* what the actions of one component leave alone
notTau == <<fVars, dfVars, simVars, laterVars>>
notF == <<tauVars, dfVars, simVars, laterVars>>
notDf == <<tauVars, fVars, simVars, laterVars>>
notSim == <<tauVars, fVars, dfVars, laterVars>>
firstVars == <<tauVars, fVars, dfVars, simVars>>
notD == <<firstVars, fileVars, tuneVars, logVars, tfVars, batVars, vizVars>>
notTune == <<firstVars, dVars, logVars, tfVars, batVars, vizVars>>
notLog == <<firstVars, dVars, tuneVars, sweepFiles, tfVars, batVars, vizVars>>
notTf == <<firstVars, dVars, fileVars, tuneVars, logVars, batVars, vizVars>>
notBat == <<firstVars, dVars, fileVars, tuneVars, logVars, tfVars, vizVars>>
notViz == <<firstVars, dVars, fileVars, tuneVars, logVars, tfVars, batVars>>

\* a component that takes no part in a specification stays idle
TauIdle ==
  /\ tauPc = "idle" /\ tauL1 = 0 /\ tauL2 = 0 /\ tauR1 = 0 /\ tauR2 = 0

FIdle ==
  /\ fPc = "idle" /\ fSteps = 0 /\ fTol = 0 /\ fR = 0 /\ fX0 = 0 /\ fX1 = 0
  /\ fAvg = 0 /\ fWarm = 0 /\ fI = 0 /\ fRel = 0 /\ fPrevRel = 0
  /\ fTraceLen = 0 /\ fResult = "none"

DfIdle ==
  /\ dfPc = "idle" /\ dfSteps = 0 /\ dfGamma = 0 /\ dfCoupling = 0 /\ dfT = 0
  /\ dfAmp = 0 /\ dfEcl = 0 /\ dfData = <<>> /\ dfResult = "none"
  /\ dfWhy = "none" /\ dfMetric = 0

SimIdle ==
  /\ self_p = <<>> /\ self_rng = 0 /\ rho0Arg = <<>> /\ rArg = 0 /\ simPc = "absent"
  /\ simObj = 0 /\ runNo = 0 /\ runsTotal = 0 /\ rho = <<>> /\ run_x0 = 0
  /\ run_x1 = 0
  /\ run_x = 0 /\ warm = 0 /\ run_n = 0
  /\ stepAt = "chaos" /\ xdot = 0 /\ LT = <<>> /\ LD = <<>> /\ LF = <<>> /\ Lcomm = <<>> /\ E_trace = <<>> /\ drift_trace = <<>>
  /\ eps = 0 /\ kick = 0 /\ traceBad = FALSE /\ rngStart = 0 /\ result = <<>>
  /\ firstRun = <<>>

DIdle ==
  /\ dPc = "idle" /\ dRhoIn = <<>> /\ dGamma = 0 /\ dDt = 0 /\ dOut = <<>>
  /\ dSteps = 0 /\ dRho = <<>> /\ dLast = 0 /\ dNow = 0 /\ dT = 0
  /\ dResult = "none"

FilesIdle == sweepFiles = <<>> /\ logFile = <<>>

TuneIdle ==
  /\ tunePc = "idle" /\ tuneCsvPath = "" /\ tuneDf = <<>> /\ tuneStable = <<>>
  /\ tuneBest = <<>> /\ tuneReport = "none" /\ tuneError = "none" /\ tuneLog0 = <<>>

LogIdle ==
  /\ logPc = <<>> /\ logHdr = <<>> /\ logArg = <<>> /\ logCalls = <<>>
  /\ logPar = FALSE

TfIdle ==
  /\ np_random = 0 /\ tfPc = <<>> /\ tfSeedArg = <<>> /\ tfSeed = <<>>
  /\ tfSteps = 0 /\ tfCur = 0 /\ tfK = <<>> /\ tfResult = <<>>

FirstIdle == TauIdle /\ FIdle /\ DfIdle /\ SimIdle
BatIdle ==
  /\ batPc = <<>>
  /\ batOutcomes = <<>>
  /\ batResults = <<>>
  /\ batCalled = <<>>
  /\ batTime = <<>>
  /\ batReport = <<>>
  /\ batExit = <<>>

VizIdle ==
  /\ vizPc = <<>>
  /\ vizFile = <<>>
  /\ vizReader = <<>>
  /\ vizOutcome = <<>>
  /\ vizRows = <<>>

LaterIdle == DIdle /\ FilesIdle /\ TuneIdle /\ LogIdle /\ TfIdle /\ BatIdle /\ VizIdle

(***************************************************************************)
(* Number model                                                            *)
(***************************************************************************)
\* the grid: four decimal digits
SCALE == 100 * 100
MaxFin == 200000000
\* largest square that stays within 32-bit integers
IntLim == 46340 * 46340

PInf == MaxFin + 1
NInf == -(MaxFin + 1)
NaN == MaxFin + 2

IsNaN(a) == a = NaN
IsInf(a) == a = PInf \/ a = NInf
IsFinite(a) == a >= -MaxFin /\ a <= MaxFin

Abs(a) == IF a < 0 THEN -a ELSE a
Sgn(a) == IF a < 0 THEN -1 ELSE IF a > 0 THEN 1 ELSE 0

\* overflow of a finite result to an infinity
Sat(v) == IF v > MaxFin THEN PInf ELSE IF v < -MaxFin THEN NInf ELSE v

\* n / d rounded to the nearest integer, ties away from zero (d > 0)
RoundDiv(n, d) ==
  LET m == Abs(n)
      q == m \div d
      r == m % d
      u == IF 2 * r >= d THEN q + 1 ELSE q
  IN  IF n < 0 THEN -u ELSE u

\* digits of r/d after the point, r < d, one decimal digit at a time
RECURSIVE LongFrac(_, _, _)
LongFrac(r, d, unit) ==
  IF unit = 1 THEN (IF 2 * r >= d THEN 1 ELSE 0)
  ELSE LET t == r * 10
       IN  (t \div d) * (unit \div 10) + LongFrac(t % d, d, unit \div 10)

\* a source literal num/den >= 0 on the grid
FxLit(num, den) == (num \div den) * SCALE + LongFrac(num % den, den, SCALE)
IntToFx(n) == n * SCALE

ONE == IntToFx(1)
ZERO == 0

FNeg(a) == IF IsNaN(a) THEN NaN ELSE -a

FAdd(a, b) ==
  IF IsNaN(a) \/ IsNaN(b) THEN NaN
  ELSE IF IsInf(a) THEN (IF IsInf(b) /\ b # a THEN NaN ELSE a)
  ELSE IF IsInf(b) THEN b
  ELSE Sat(a + b)

FSub(a, b) == FAdd(a, FNeg(b))

\* product of two finite non-zero magnitudes, exact up to the final rounding
\* (split in base SCALE so that no intermediate leaves the integer range)
WideMul(m, k) ==
  LET mh == m \div SCALE
      ml == m % SCALE
      kh == k \div SCALE
      kl == k % SCALE
      hh == mh * kh
  IN  IF hh > MaxFin \div SCALE THEN PInf
      ELSE LET s1 == hh * SCALE + mh * kl
           IN  IF s1 > MaxFin THEN PInf
               ELSE LET s2 == s1 + ml * kh
                    IN  IF s2 > MaxFin THEN PInf
                        ELSE Sat(s2 + RoundDiv(ml * kl, SCALE))

FMul(a, b) ==
  IF IsNaN(a) \/ IsNaN(b) THEN NaN
  ELSE IF IsInf(a) \/ IsInf(b)
       THEN (IF a = 0 \/ b = 0 THEN NaN
             ELSE IF Sgn(a) = Sgn(b) THEN PInf ELSE NInf)
  ELSE IF a = 0 \/ b = 0 THEN 0
  ELSE IF Abs(a) <= 46340 /\ Abs(b) <= 46340 THEN RoundDiv(a * b, SCALE)
  ELSE LET w == WideMul(Abs(a), Abs(b))
       IN  IF Sgn(a) = Sgn(b) THEN w ELSE FNeg(w)

\* quotient of two finite magnitudes, k > 0
WideDiv(m, k) ==
  IF m <= IntLim \div SCALE THEN RoundDiv(m * SCALE, k)
  ELSE LET q == m \div k
       IN  IF q > MaxFin \div SCALE THEN PInf
           ELSE Sat(q * SCALE + LongFrac(m % k, k, SCALE))

FDiv(a, b) ==
  IF IsNaN(a) \/ IsNaN(b) THEN NaN
  ELSE IF IsInf(a) THEN (IF IsInf(b) THEN NaN
                         ELSE IF (a = PInf) = (b >= 0) THEN PInf ELSE NInf)
  ELSE IF IsInf(b) THEN 0
  ELSE IF b = 0 THEN (IF a = 0 THEN NaN ELSE IF a > 0 THEN PInf ELSE NInf)
  ELSE LET w == WideDiv(Abs(a), Abs(b))
       IN  IF Sgn(a) = Sgn(b) \/ a = 0 THEN w ELSE FNeg(w)

\* comparisons: every comparison with NaN is false
FLt(a, b) == ~IsNaN(a) /\ ~IsNaN(b) /\ a < b
FGt(a, b) == FLt(b, a)
FLe(a, b) == ~IsNaN(a) /\ ~IsNaN(b) /\ a <= b

\* Python's max(a, b): b if b > a else a
PyMax(a, b) == IF FGt(b, a) THEN b ELSE a

FAbs(a) == IF IsNaN(a) THEN NaN ELSE Abs(a)

\* np.clip(v, lo, hi) = minimum(maximum(v, lo), hi); NaN propagates
Clip(v, lo, hi) ==
  IF IsNaN(v) THEN NaN
  ELSE IF v < lo THEN lo ELSE IF v > hi THEN hi ELSE v

\* integer square root by bisection: the largest s in lo..hi with s*s <= n
RECURSIVE ISqrt(_, _, _)
ISqrt(n, lo, hi) ==
  IF lo >= hi THEN lo
  ELSE LET mid == (lo + hi + 1) \div 2
       IN  IF mid * mid <= n THEN ISqrt(n, mid, hi) ELSE ISqrt(n, lo, mid - 1)

\* np.sqrt
FSqrt(a) ==
  IF IsNaN(a) \/ a < 0 THEN NaN
  ELSE IF a = PInf THEN PInf
  ELSE IF a <= IntLim \div SCALE
       THEN LET n == a * SCALE
                s == ISqrt(n, 0, 46340)
            IN  IF n - s * s > s THEN s + 1 ELSE s
       ELSE 100 * ISqrt(a, 0, 46340)

\* np.exp by its power series, summed until the term vanishes on the grid
RECURSIVE ExpSeries(_, _, _, _)
ExpSeries(z, term, k, acc) ==
  IF term = 0 \/ k > 40 THEN acc
  ELSE LET nt == RoundDiv(FMul(term, z), k)
       IN  ExpSeries(z, nt, k + 1, FAdd(acc, nt))

FExp(z) ==
  IF IsNaN(z) THEN NaN
  ELSE IF z = PInf THEN PInf
  ELSE IF z = NInf THEN 0
  ELSE ExpSeries(z, ONE, 1, ONE)

(***************************************************************************)
(* tau_crit  (coupled_superop.py:142-145)                                  *)
(* Its argument is given in units of 1e-9 so that values below the 1e-8    *)
(* floor exist; its result is in units of 1/16.                            *)
(***************************************************************************)
TauFloorN == 10
NanoOne == 1000 * 1000 * 1000

\* binary digits of r/d after the point, r < d
RECURSIVE BinFrac(_, _, _)
BinFrac(r, d, unit) ==
  IF unit = 1 THEN (IF 2 * r >= d THEN 1 ELSE 0)
  ELSE LET t == r * 2
       IN  (t \div d) * (unit \div 2) + BinFrac(t % d, d, unit \div 2)

\* the slip "no floor": lam_max is used as given
TauCritNoFloor(lam_max) ==
  LET d == 2 * Abs(lam_max)
      v == IF d < 8 THEN 2000000000
           ELSE (NanoOne \div d) * 16 + BinFrac(NanoOne % d, d, 16)
  IN  IF lam_max < 0 THEN -v ELSE v

TauCrit(lam_max) ==
  LET lm == IF lam_max > TauFloorN THEN lam_max ELSE TauFloorN
      d == 2 * lm
  IN  (NanoOne \div d) * 16 + BinFrac(NanoOne % d, d, 16)

MaxTauOff == 12
MaxTauTenths == 4
TauLams == (-2 .. TauFloorN + MaxTauOff)
           \cup {k * (NanoOne \div 10) : k \in -1 .. MaxTauTenths}

InitTau ==
  /\ tauPc = "call"
  /\ tauL1 \in TauLams
  /\ tauL2 \in TauLams
  /\ tauR1 = 0
  /\ tauR2 = 0

\* the two calls tau_crit(lambda1), tau_crit(lambda2)
TauEval ==
  /\ tauPc = "call"
  /\ tauR1' = TauCrit(tauL1)
  /\ tauR2' = TauCrit(tauL2)
  /\ tauPc' = "done"
  /\ UNCHANGED <<tauL1, tauL2>>
  /\ UNCHANGED notTau

NextTau == TauEval
InitTauAll == InitTau /\ FIdle /\ DfIdle /\ SimIdle /\ LaterIdle
SpecTau == InitTauAll /\ [][NextTau]_vars

\* C5 (as stated): tau_crit is strictly decreasing: for all lambda1 < lambda2
\* with lambda2 > 0 (lambda1 may be zero, negative or below the 1e-8 floor),
\* tau_crit(lambda1) > tau_crit(lambda2).
C5_StrictEverywhere ==
  (tauPc = "done" /\ tauL1 < tauL2 /\ tauL2 > 0) => tauR1 > tauR2

\* C5 (amended): tau_crit is non-increasing: for all lambda1 < lambda2,
\* tau_crit(lambda1) >= tau_crit(lambda2); both are the floor value
\* 1/(2*1e-8) = 5e7 when lambda2 <= 1e-8; the decrease is strict whenever
\* lambda2 is at least twice max(lambda1, 1e-8).
C5_TauCritMonotone ==
  (tauPc = "done" /\ tauL1 < tauL2) =>
     /\ tauR1 >= tauR2
     /\ (tauL2 <= TauFloorN => (tauR1 = 50000000 * 16 /\ tauR2 = tauR1))
     /\ (tauL2 >= 2 * TauFloorN /\ tauL2 >= 2 * tauL1 => tauR1 > tauR2)

\* C5 witness: the pair of the repository's test, tau_crit(0.1) > tau_crit(0.2),
\* has been evaluated
C5_Witness ==
  /\ tauPc = "done"
  /\ tauL1 = NanoOne \div 10
  /\ tauL2 = 2 * (NanoOne \div 10)
  /\ tauR1 = 5 * 16
  /\ tauR2 = 40

(***************************************************************************)
(* falsify_F_operator  (test_F_false_chaos_amplification.py:11-55)          *)
(***************************************************************************)
\* logistic_map(x, r) = np.clip(r * x * (1 - x), 0.0, 1.0)
LogisticMap(x, r) == Clip(FMul(FMul(r, x), FSub(ONE, x)), ZERO, ONE)

FWarmupIters == 100
FCheckAfter == 200

\* (E0 + E1) / 2 with E0 = x0**2, E1 = x1**2
FMeanE(x0, x1) == FDiv(FAdd(FMul(x0, x0), FMul(x1, x1)), IntToFx(2))

\* rel_dE = abs(((E0 + E1) / 2 - E0_avg) / (E0_avg + 1e-8))
FRelDE(x0, x1, avg) ==
  FAbs(FDiv(FSub(FMeanE(x0, x1), avg), FAdd(avg, FxLit(1, 100000000))))

\* E0_avg = 0.99 * E0_avg + 0.01 * ((E0 + E1) / 2)
FAvgNext(x0, x1, avg) ==
  FAdd(FMul(FxLit(99, 100), avg), FMul(FxLit(1, 100), FMeanE(x0, x1)))

\* line 43: i > 200 and rel_dE > tolerance
FExceeds(i, rel, tol) == i > FCheckAfter /\ FGt(rel, tol)

MaxFSteps == 230
FRs == {FxLit(28, 10), FxLit(32, 10), FxLit(37, 10), FxLit(38, 10)}
FTols == {FxLit(8, 100), FxLit(5, 10), IntToFx(2)}
FStepsSet == {0, FCheckAfter + 1, MaxFSteps}

\* lines 16-23: the call with its arguments, x0, x1 = 0.5, 0.500001
InitF ==
  /\ fPc = "warmup"
  /\ fSteps \in FStepsSet
  /\ fTol \in FTols
  /\ fR \in FRs
  /\ fX0 = FxLit(5, 10)
  /\ fX1 = FxLit(500001, 1000000)
  /\ fAvg = 0
  /\ fWarm = 0
  /\ fI = 0
  /\ fRel = 0
  /\ fPrevRel = 0
  /\ fTraceLen = 0
  /\ fResult = "none"

\* lines 26-27: one warm-up iteration
FWarmupIter ==
  /\ fPc = "warmup"
  /\ fWarm < FWarmupIters
  /\ fX0' = LogisticMap(fX0, fR)
  /\ fX1' = LogisticMap(fX1, fR)
  /\ fWarm' = fWarm + 1
  /\ UNCHANGED <<fPc, fSteps, fTol, fR, fAvg, fI, fRel, fPrevRel, fTraceLen,
                 fResult>>
  /\ UNCHANGED notF

\* line 29: E0_avg = (x0**2 + x1**2) / 2, then the loop is entered
FWarmupDone ==
  /\ fPc = "warmup"
  /\ fWarm = FWarmupIters
  /\ fAvg' = FMeanE(fX0, fX1)
  /\ fPc' = "loop"
  /\ UNCHANGED <<fSteps, fTol, fR, fX0, fX1, fWarm, fI, fRel, fPrevRel,
                 fTraceLen, fResult>>
  /\ UNCHANGED notF

\* lines 31-50: one iteration of the main loop; it returns False at once
\* when the check of line 43 fires
FLoopIter ==
  /\ fPc = "loop"
  /\ fI < fSteps
  /\ LET x0n == LogisticMap(fX0, fR)
         x1n == LogisticMap(fX1, fR)
         rel == FRelDE(x0n, x1n, fAvg)
     IN  /\ fX0' = x0n
         /\ fX1' = x1n
         /\ fRel' = rel
         /\ fPrevRel' = fRel
         /\ fTraceLen' = fTraceLen + 1
         /\ fI' = fI + 1
         /\ IF FExceeds(fI, rel, fTol)
            THEN /\ fResult' = "False"
                 /\ fPc' = "done"
                 /\ fAvg' = fAvg
            ELSE /\ fAvg' = FAvgNext(x0n, x1n, fAvg)
                 /\ UNCHANGED <<fResult, fPc>>
  /\ UNCHANGED <<fSteps, fTol, fR, fWarm>>
  /\ UNCHANGED notF

\* lines 52-55: the loop ran out, the function returns True
FReturnTrue ==
  /\ fPc = "loop"
  /\ fI = fSteps
  /\ fResult' = "True"
  /\ fPc' = "done"
  /\ UNCHANGED <<fSteps, fTol, fR, fX0, fX1, fAvg, fWarm, fI, fRel, fPrevRel,
                 fTraceLen>>
  /\ UNCHANGED notF

NextF == FWarmupIter \/ FWarmupDone \/ FLoopIter \/ FReturnTrue

InitFAll == InitF /\ TauIdle /\ DfIdle /\ SimIdle /\ LaterIdle
SpecF == InitFAll /\ [][NextF]_vars

\* index of the loop iteration that has just been executed
FLastIndex == fI - 1

\* C10 (as stated): falsify_F_operator returns False only when rel_dE exceeds
\* the tolerance persistently, on consecutive steps after step 200: a single
\* excess whose preceding step was within tolerance does not make it return
\* False.
C10_OnlySustainedDrift ==
  (fPc = "done" /\ fResult = "False") =>
     /\ FLastIndex > FCheckAfter
     /\ FGt(fRel, fTol)
     /\ FGt(fPrevRel, fTol)

(***************************************************************************)
(* falsify_DF_operator  (test_DF_coupling_variation.py:15-64)               *)
(***************************************************************************)
\* decoherence_channel(amplitude, gamma, dt=1.0) = amplitude * exp(-gamma * dt)
DecoherenceChannel(amplitude, gamma) ==
  FMul(amplitude, FExp(FMul(FNeg(gamma), ONE)))

\* classical_diffusion_step(E_classical, injection, diffusion=0.01)
ClassicalDiffusionStep(E_classical, injection) ==
  FAdd(E_classical, FMul(FxLit(1, 100), FSub(injection, E_classical)))

DfDefaultSteps == 50
DfDefaultGamma == FxLit(5, 100)
DfDefaultCoupling == FxLit(2, 10)
DfEnergyTol == FxLit(1, 1000)
DfCorrMin == FxLit(8, 10)

\* the exact sum of q[lo..hi], split in halves
RECURSIVE SumBetween(_, _, _)
SumBetween(q, lo, hi) ==
  IF lo > hi THEN 0
  ELSE IF lo = hi THEN q[lo]
  ELSE LET mid == (lo + hi) \div 2
       IN  SumBetween(q, lo, mid) + SumBetween(q, mid + 1, hi)

SumSeq(q) == SumBetween(q, 1, Len(q))

RECURSIVE MaxSeq(_)
MaxSeq(q) == IF Len(q) = 1 THEN q[1]
             ELSE LET m == MaxSeq(Tail(q)) IN IF q[1] > m THEN q[1] ELSE m

\* 2 * np.gradient(f) for unit spacing: central differences inside, one-sided
\* differences at the two ends (the common factor 2 keeps the values on the
\* grid and does not change a correlation)
Gradient2(f) ==
  LET n == Len(f)
  IN  [i \in 1..n |->
         IF i = 1 THEN 2 * (f[2] - f[1])
         ELSE IF i = n THEN 2 * (f[n] - f[n - 1])
         ELSE f[i + 1] - f[i - 1]]

\* np.corrcoef(x, y)[0, 1] = cov / (sqrt(var x) * sqrt(var y)) from the exact
\* sums n*Sum(xy) - Sum(x)Sum(y); NaN when a variance is zero
CorrCoef(x, y) ==
  LET n == Len(x)
      sx == SumSeq(x)
      sy == SumSeq(y)
      sxy == n * SumSeq([i \in 1..n |-> x[i] * y[i]]) - sx * sy
      sxx == n * SumSeq([i \in 1..n |-> x[i] * x[i]]) - sx * sx
      syy == n * SumSeq([i \in 1..n |-> y[i] * y[i]]) - sy * sy
  IN  IF sxx = 0 \/ syy = 0 THEN NaN
      ELSE Clip(FDiv(FDiv(sxy, FSqrt(sxx)), FSqrt(syy)), -ONE, ONE)

\* lines 48-51: np.any(|total_energy - total_energy[0]| > 1e-3)
DfEnergyBroken(total) ==
  \E i \in 1..Len(total) : FGt(FAbs(FSub(total[i], total[1])), DfEnergyTol)

DfMaxDelta(total) ==
  MaxSeq([i \in 1..Len(total) |-> FAbs(FSub(total[i], total[1]))])

DfStepsSet == {2, 3, DfDefaultSteps}
DfGammas == {0, FxLit(1, 10000), DfDefaultGamma}
DfCouplings == {DfDefaultCoupling, IntToFx(1)}

\* lines 30-33: amp = 1.0, E_classical = 0.0, results = []
InitDf ==
  /\ dfPc = "sim"
  /\ dfSteps \in DfStepsSet
  /\ dfGamma \in DfGammas
  /\ dfCoupling \in DfCouplings
  /\ dfT = 0
  /\ dfAmp = ONE
  /\ dfEcl = 0
  /\ dfData = <<>>
  /\ dfResult = "none"
  /\ dfWhy = "none"
  /\ dfMetric = 0

\* lines 35-41: one iteration of the simulation loop
DfSimStep ==
  /\ dfPc = "sim"
  /\ dfT < dfSteps
  /\ LET amp_next == DecoherenceChannel(dfAmp, dfGamma)
         dE_loss == FSub(FMul(dfAmp, dfAmp), FMul(amp_next, amp_next))
         ecl == ClassicalDiffusionStep(dfEcl, FMul(dE_loss, dfCoupling))
         E_total == FAdd(FMul(amp_next, amp_next), ecl)
     IN  /\ dfData' = Append(dfData, [t |-> dfT, amp |-> amp_next,
                                      ecl |-> ecl, etot |-> E_total])
         /\ dfEcl' = ecl
         /\ dfAmp' = amp_next
  /\ dfT' = dfT + 1
  /\ UNCHANGED <<dfPc, dfSteps, dfGamma, dfCoupling, dfResult, dfWhy, dfMetric>>
  /\ UNCHANGED notDf

\* line 43: the simulation returns its rows
DfSimReturn ==
  /\ dfPc = "sim"
  /\ dfT = dfSteps
  /\ dfPc' = "check"
  /\ UNCHANGED <<dfSteps, dfGamma, dfCoupling, dfT, dfAmp, dfEcl, dfData,
                 dfResult, dfWhy, dfMetric>>
  /\ UNCHANGED notDf

\* lines 48-64: the two checks on the returned rows
DfCheck ==
  /\ dfPc = "check"
  /\ LET n == Len(dfData)
         total == [i \in 1..n |-> dfData[i].etot]
         corr == CorrCoef([i \in 1..n |-> -Gradient2([j \in 1..n |-> dfData[j].amp])[i]],
                          Gradient2([j \in 1..n |-> dfData[j].ecl]))
     IN  IF DfEnergyBroken(total)
         THEN /\ dfResult' = "False"
              /\ dfWhy' = "energy"
              /\ dfMetric' = DfMaxDelta(total)
         ELSE IF FLt(corr, DfCorrMin)
         THEN /\ dfResult' = "False"
              /\ dfWhy' = "corr"
              /\ dfMetric' = corr
         ELSE /\ dfResult' = "True"
              /\ dfWhy' = "ok"
              /\ dfMetric' = corr
  /\ dfPc' = "done"
  /\ UNCHANGED <<dfSteps, dfGamma, dfCoupling, dfT, dfAmp, dfEcl, dfData>>
  /\ UNCHANGED notDf

NextDf == DfSimStep \/ DfSimReturn \/ DfCheck

InitDfAll == InitDf /\ TauIdle /\ FIdle /\ SimIdle /\ LaterIdle
SpecDf == InitDfAll /\ [][NextDf]_vars

DfIsDefault ==
  /\ dfSteps = DfDefaultSteps
  /\ dfGamma = DfDefaultGamma
  /\ dfCoupling = DfDefaultCoupling

\* C9 (as stated): falsify_DF_operator() on the default simulation (50 steps,
\* gamma = 0.05, coupling = 0.2) returns True: every E_total[t] is within 1e-3
\* of E_total[0] and the correlation of quantum loss and classical gain is at
\* least 0.8.
C9_DefaultDfPasses ==
  (dfPc = "done" /\ DfIsDefault) =>
     /\ dfResult = "True"
     /\ \A i \in 1..Len(dfData) :
           FLt(FAbs(FSub(dfData[i].etot, dfData[1].etot)), DfEnergyTol)

(***************************************************************************)
(* CoupledUTFSimulator  (coupled_superop.py:20-140)                         *)
(* A complex number is a pair <<re, im>>; a 2x2 matrix [[a, b], [c, d]] is  *)
(* the tuple <<a, b, c, d>> of its entries.                                 *)
(***************************************************************************)
CAdd(z, w) == <<FAdd(z[1], w[1]), FAdd(z[2], w[2])>>
CSub(z, w) == <<FSub(z[1], w[1]), FSub(z[2], w[2])>>
CMul(z, w) == <<FSub(FMul(z[1], w[1]), FMul(z[2], w[2])),
                FAdd(FMul(z[1], w[2]), FMul(z[2], w[1]))>>
CConj(z) == <<z[1], FNeg(z[2])>>
\* a real scalar promoted to complex, as numpy does before it multiplies
CReal(a) == <<a, 0>>

MAdd(A, B) == <<CAdd(A[1], B[1]), CAdd(A[2], B[2]), CAdd(A[3], B[3]), CAdd(A[4], B[4])>>
MSub(A, B) == <<CSub(A[1], B[1]), CSub(A[2], B[2]), CSub(A[3], B[3]), CSub(A[4], B[4])>>
MScale(z, A) == <<CMul(z, A[1]), CMul(z, A[2]), CMul(z, A[3]), CMul(z, A[4])>>
MatMul(A, B) ==
  <<CAdd(CMul(A[1], B[1]), CMul(A[2], B[3])), CAdd(CMul(A[1], B[2]), CMul(A[2], B[4])),
    CAdd(CMul(A[3], B[1]), CMul(A[4], B[3])), CAdd(CMul(A[3], B[2]), CMul(A[4], B[4]))>>
Trace(A) == CAdd(A[1], A[4])

\* lines 20-22
sigma_x == <<CReal(0), CReal(ONE), CReal(ONE), CReal(0)>>
sigma_y == <<CReal(0), <<0, -ONE>>, <<0, ONE>>, CReal(0)>>
sigma_z == <<CReal(ONE), CReal(0), CReal(0), CReal(-ONE)>>

\* line 25: dagger(A) = A.conj().T
dagger(A) == <<CConj(A[1]), CConj(A[3]), CConj(A[2]), CConj(A[4])>>

\* lines 27-28
lindblad(r0, L) ==
  MSub(MatMul(MatMul(L, r0), dagger(L)),
       MScale(CReal(FxLit(5, 10)),
              MAdd(MatMul(MatMul(dagger(L), L), r0), MatMul(MatMul(r0, dagger(L)), L))))

\* line 53: the modulation 0.15 * lam * (x - 0.5) of _H_t
Epsilon(q, xv) == FMul(FMul(FxLit(15, 100), q.lam), FSub(xv, FxLit(5, 10)))

\* lines 49-54
H_t(q, xv) ==
  MAdd(MScale(CReal(FMul(FxLit(5, 10), q.omega)), sigma_x),
       MScale(CReal(Epsilon(q, xv)), sigma_y))

\* lines 56-57
logistic_step(xv, r) == Clip(FMul(FMul(r, xv), FSub(ONE, xv)), ZERO, ONE)

\* lines 59-61
L_T(r0, H) == MScale(<<0, -ONE>>, MSub(MatMul(H, r0), MatMul(r0, H)))

\* lines 63-66
L_D(q, r0) == lindblad(r0, MScale(CReal(FSqrt(PyMax(q.gamma, ZERO))), sigma_z))

\* line 71: k = 0.1 * lam * xdot
KickK(q, xd) == FMul(FMul(FxLit(1, 10), q.lam), xd)

\* lines 68-73
L_F(q, r0, xd) ==
  LET K == MScale(CMul(<<0, ONE>>, CReal(KickK(q, xd))), sigma_y)
  IN  MSub(MatMul(K, r0), MatMul(r0, K))

\* lines 75-77
commutator_term(q, r0, Ld, Lf) ==
  MScale(CReal(q.eta), MSub(L_D(q, Lf), L_F(q, Ld, ZERO)))

\* numpy's quotient of a complex z by the real t promoted to t + 0j
CDivReal(z, t) ==
  IF IsNaN(t) THEN <<NaN, NaN>>
  ELSE IF t = 0 THEN <<FDiv(z[1], 0), FDiv(z[2], 0)>>
  ELSE LET rat == FDiv(0, t)
           scl == FDiv(ONE, FAdd(t, FMul(0, rat)))
       IN  <<FMul(FAdd(z[1], FMul(z[2], rat)), scl),
             FMul(FSub(z[2], FMul(z[1], rat)), scl)>>

\* line 122: rho = 0.5 * (rho + dagger(rho))
Hermitize(r0) == MScale(CReal(FxLit(5, 10)), MAdd(r0, dagger(r0)))

\* line 123: rho = rho / np.trace(rho).real
Renormalize(r0) ==
  LET t == Trace(r0)[1]
  IN  <<CDivReal(r0[1], t), CDivReal(r0[2], t), CDivReal(r0[3], t), CDivReal(r0[4], t)>>

\* line 96
H_base(q) == MScale(CReal(FMul(FxLit(5, 10), q.omega)), sigma_x)

\* line 125: E = np.real(np.trace(rho @ H_base))
Energy(q, r0) == Trace(MatMul(r0, H_base(q)))[1]

\* lines 118-119: rho + (LT + LD + LF + Lcomm) * dt
EulerUpdate(q, r0, lt, ld, lf, lc) ==
  MAdd(r0, MScale(CReal(q.dt), MAdd(MAdd(MAdd(lt, ld), lf), lc)))

\* lines 82-84: |+><+| from plus = (1/sqrt(2)) * [[1], [1]]
PlusState ==
  LET c == CMul(CReal(FDiv(ONE, FSqrt(IntToFx(2)))), CReal(ONE))
  IN  <<CMul(c, CConj(c)), CMul(c, CConj(c)), CMul(c, CConj(c)), CMul(c, CConj(c))>>

\* np.sum of q[lo..hi], added up pairwise
RECURSIVE FSumBetween(_, _, _)
FSumBetween(q, lo, hi) ==
  IF lo > hi THEN 0
  ELSE IF lo = hi THEN q[lo]
  ELSE LET mid == (lo + hi) \div 2
       IN  FAdd(FSumBetween(q, lo, mid), FSumBetween(q, mid + 1, hi))

FSum(q) == FSumBetween(q, 1, Len(q))

\* the slip "the sum is not divided by the count"
FMeanNoDivide(q) == FSum(q)

\* np.mean: the sum over the count (NaN for an empty array)
FMean(q) == FDiv(FSum(q), IntToFx(Len(q)))

\* np.max of a non-empty array; NaN propagates
FMax2(a, b) == IF IsNaN(a) \/ IsNaN(b) THEN NaN ELSE IF a > b THEN a ELSE b

RECURSIVE FMaxBetween(_, _, _)
FMaxBetween(q, lo, hi) ==
  IF lo = hi THEN q[lo]
  ELSE LET mid == (lo + hi) \div 2
       IN  FMax2(FMaxBetween(q, lo, mid), FMaxBetween(q, mid + 1, hi))

FMaxSeq(q) == FMaxBetween(q, 1, Len(q))

\* np.std: sqrt(mean(|x - mean|^2)); the squares of the deviations are summed
\* exactly, so that small deviations are not lost on the grid
FStdOf(d) ==
  IF \E i \in 1..Len(d) : ~IsFinite(d[i]) THEN NaN
  ELSE IF \A i \in 1..Len(d) : d[i] <= SCALE /\ d[i] * d[i] <= IntLim \div Len(d)
       THEN ISqrt(SumSeq([i \in 1..Len(d) |-> d[i] * d[i]]) \div Len(d), 0, 46340)
       ELSE FSqrt(FMean([i \in 1..Len(d) |-> FMul(d[i], d[i])]))

FStdAround(q, mu) ==
  IF IsNaN(mu) THEN NaN ELSE FStdOf([i \in 1..Len(q) |-> FAbs(FSub(q[i], mu))])

FStd(q) == FStdAround(q, FMean(q))

\* lines 132-139
Stats(E, drift) ==
  LET drift_arr == IF drift # <<>> THEN drift ELSE <<ZERO>>
  IN  [E_mean |-> FMean(E),
       E_std |-> FStd(E),
       drift_mean |-> FMean(drift_arr),
       drift_max |-> FMaxSeq(drift_arr)]

DriftAfter == 10
DriftWindow == 200
SimWarmupIters == 100

\* self.rng = np.random.default_rng(seed): the generator is a stream fixed by
\* the seed; with seed None it starts from fresh entropy
NoSeed == -1
RngModulus == 8
RngSeeded(seed) == (7 * seed + 3) % RngModulus
RngNext(g) == (5 * g + 3) % RngModulus
\* the standard normal deviate the generator yields in state g
RngDeviate(g) == ((g % 5) - 2) * FxLit(7, 10)
\* rng.normal(0, sigma)
RngNormal(g, sigma) == FAdd(ZERO, FMul(sigma, RngDeviate(g)))

(***************************************************************************)
(* The simulator as a state machine: construction, then run() calls.        *)
(***************************************************************************)
MaxSteps == 12
MaxRuns == 2

UTFParams(g, l, e, dt, st, seed, ns) ==
  [omega |-> ONE, gamma |-> g, lam |-> l, eta |-> e, dt |-> dt, steps |-> st,
   seed |-> seed, noise_sigma |-> ns]

RhoZero == <<CReal(0), CReal(0), CReal(0), CReal(0)>>
RhoUp == <<CReal(ONE), CReal(0), CReal(0), CReal(0)>>
RhoUp2 == <<CReal(IntToFx(2)), CReal(0), CReal(0), CReal(0)>>

DefaultGamma == FxLit(6, 10)
DefaultLam == FxLit(1, 10)
DefaultEta == FxLit(1, 10)
DefaultDt == FxLit(1, 100)
DefaultR == FxLit(38, 10)
SmallNoise == FxLit(1, 1000)
LargeNoise == FxLit(5, 100)

\* the constructor's and run's arguments that are explored
SimConfigs ==
  \* rates switched on and off
  {[q |-> UTFParams(g, l, e, DefaultDt, MaxSteps, 0, ZERO), rho0 |-> <<>>, r |-> DefaultR] :
      g \in {DefaultGamma, ZERO}, l \in {DefaultLam, ZERO}, e \in {DefaultEta, ZERO}}
  \cup
  \* seeds, with and without noise, under a strong coupling
  {[q |-> UTFParams(DefaultGamma, ONE, DefaultEta, DefaultDt, 3, sd, ns),
    rho0 |-> <<>>, r |-> DefaultR] :
      sd \in {0, 1, NoSeed}, ns \in {ZERO, LargeNoise}}
  \cup
  \* parameters outside their documented range
  {[q |-> UTFParams(g, l, DefaultEta, DefaultDt, 3, 0, ZERO), rho0 |-> <<>>, r |-> DefaultR] :
      g \in {DefaultGamma, -FxLit(5, 10)}, l \in {DefaultLam, -DefaultLam}}
  \cup
  {[q |-> UTFParams(DefaultGamma, DefaultLam, DefaultEta, dt, st, 0, ZERO),
    rho0 |-> <<>>, r |-> DefaultR] :
      dt \in {ZERO, -DefaultDt, DefaultDt}, st \in {0, 3}}
  \cup
  \* initial matrices and map gains
  {[q |-> UTFParams(DefaultGamma, DefaultLam, DefaultEta, DefaultDt, 3, 0, ns),
    rho0 |-> m, r |-> rr] :
      m \in {RhoZero, sigma_z, RhoUp, RhoUp2}, rr \in {DefaultR, FxLit(42, 10)},
      ns \in {ZERO, SmallNoise}}
  \cup
  \* a run long enough to record drift samples, from a traceless matrix
  {[q |-> UTFParams(DefaultGamma, DefaultLam, DefaultEta, DefaultDt, MaxSteps, 0, ZERO),
    rho0 |-> RhoZero, r |-> DefaultR]}
  \cup
  \* map gains far outside the chaotic band (negative, huge, float('inf')),
  \* with and without noise
  {[q |-> UTFParams(DefaultGamma, DefaultLam, DefaultEta, DefaultDt, 3, 0, ns),
    rho0 |-> <<>>, r |-> rr] :
      rr \in {-ONE, IntToFx(100), PInf}, ns \in {ZERO, LargeNoise}}
  \cup
  \* the cross term switched off, on good and bad time steps and matrices
  {[q |-> UTFParams(DefaultGamma, DefaultLam, ZERO, dt, 3, 0, ZERO),
    rho0 |-> m, r |-> DefaultR] :
      dt \in {ZERO, DefaultDt}, m \in {<<>>, RhoZero, RhoUp}}

\* line 47: the generator a constructor call leaves in the object
RngAfterInit(seed) ==
  IF seed = NoSeed THEN 0 .. (RngModulus - 1) ELSE {RngSeeded(seed)}

\* lines 45-47, CoupledUTFSimulator(params): the state after construction
InitSim ==
  /\ \E c \in SimConfigs :
        /\ self_p = c.q
        /\ rho0Arg = c.rho0
        /\ rArg = c.r
        /\ self_rng \in RngAfterInit(c.q.seed)
  /\ simPc = "idle"
  /\ simObj = 1
  /\ runNo = 0
  /\ runsTotal = 0
  /\ rho = <<>>
  /\ run_x0 = 0
  /\ run_x1 = 0
  /\ run_x = 0
  /\ warm = 0
  /\ run_n = 0
  /\ stepAt = "chaos"
  /\ xdot = 0
  /\ LT = <<>>
  /\ LD = <<>>
  /\ LF = <<>>
  /\ Lcomm = <<>>
  /\ E_trace = <<>>
  /\ drift_trace = <<>>
  /\ eps = 0
  /\ kick = 0
  /\ traceBad = FALSE
  /\ rngStart = 0
  /\ result = <<>>
  /\ firstRun = <<>>

\* lines 45-47 again: a second simulator is constructed from the same UTFParams
NewSimulator ==
  /\ simPc = "done"
  /\ runsTotal < MaxRuns
  /\ simObj = 1
  /\ self_rng' \in RngAfterInit(self_p.seed)
  /\ simObj' = simObj + 1
  /\ runNo' = 0
  /\ simPc' = "idle"
  /\ UNCHANGED <<self_p, rho0Arg, rArg, runsTotal, rho, run_x0, run_x1, run_x, warm,
                 run_n, E_trace, drift_trace, eps, kick, traceBad, rngStart, result,
                 firstRun, stepAt, xdot, LT, LD, LF, Lcomm>>
  /\ UNCHANGED notSim

\* lines 79-90: run(rho0, r) is called, on a new object or on one that has run
RunBegin ==
  /\ simPc \in {"idle", "done"}
  /\ runsTotal < MaxRuns
  /\ rho' = IF rho0Arg = <<>> THEN PlusState ELSE rho0Arg
  /\ run_x0' = FAdd(FxLit(5, 10), FxLit(1, 1000000))
  /\ run_x1' = FxLit(5, 10)
  /\ warm' = 0
  /\ run_n' = 0
  /\ E_trace' = <<>>
  /\ drift_trace' = <<>>
  /\ traceBad' = FALSE
  /\ rngStart' = self_rng
  /\ result' = <<>>
  /\ runNo' = runNo + 1
  /\ runsTotal' = runsTotal + 1
  /\ simPc' = "warmup"
  /\ stepAt' = "chaos"
  /\ UNCHANGED <<self_p, self_rng, rho0Arg, rArg, simObj, run_x, eps, kick, firstRun,
                 xdot, LT, LD, LF, Lcomm>>
  /\ UNCHANGED notSim

\* lines 91-93: one warm-up iteration of the two trajectories
WarmupIter ==
  /\ simPc = "warmup"
  /\ warm < SimWarmupIters
  /\ run_x0' = logistic_step(run_x0, rArg)
  /\ run_x1' = logistic_step(run_x1, rArg)
  /\ warm' = warm + 1
  /\ UNCHANGED <<self_p, self_rng, rho0Arg, rArg, simPc, simObj, runNo, runsTotal,
                 rho, run_x, run_n, E_trace, drift_trace, eps, kick, traceBad,
                 rngStart, result, firstRun, stepAt, xdot, LT, LD, LF, Lcomm>>
  /\ UNCHANGED notSim

\* the slip "the loop is entered before the warm-up has finished"
LoopEnterEarly ==
  /\ simPc = "warmup"
  /\ warm <= SimWarmupIters
  /\ run_x' = run_x0
  /\ simPc' = "loop"
  /\ UNCHANGED <<self_p, self_rng, rho0Arg, rArg, simObj, runNo, runsTotal, rho,
                 run_x0, run_x1, warm, run_n, E_trace, drift_trace, eps, kick,
                 traceBad, rngStart, result, firstRun, stepAt, xdot, LT, LD, LF, Lcomm>>
  /\ UNCHANGED notSim

\* lines 95-100: the loop is entered with x = x0
LoopEnter ==
  /\ simPc = "warmup"
  /\ warm = SimWarmupIters
  /\ run_x' = run_x0
  /\ simPc' = "loop"
  /\ UNCHANGED <<self_p, self_rng, rho0Arg, rArg, simObj, runNo, runsTotal, rho,
                 run_x0, run_x1, warm, run_n, E_trace, drift_trace, eps, kick,
                 traceBad, rngStart, result, firstRun, stepAt, xdot, LT, LD, LF, Lcomm>>
  /\ UNCHANGED notSim

\* The body of the stepping loop (lines 101-130) runs in the order of its
\* statements; stepAt is the position reached inside it.
loopFrame == <<self_p, rho0Arg, rArg, simPc, simObj, runNo, runsTotal, run_x0, run_x1,
               warm, rngStart, result, firstRun>>

\* the slip "the generator is drawn from whatever noise_sigma is"
NoiseActiveAlways(q) == ~FLt(q.noise_sigma, ZERO)

\* line 105: if p.noise_sigma > 0
NoiseActive(q) == FGt(q.noise_sigma, ZERO)

\* lines 102-107: the map is advanced, perturbed and clipped; xdot
StepChaos ==
  /\ simPc = "loop"
  /\ stepAt = "chaos"
  /\ run_n < self_p.steps
  /\ LET noisy == NoiseActive(self_p)
         xl == logistic_step(run_x, rArg)
         xn == IF noisy
               THEN Clip(FAdd(xl, RngNormal(self_rng, self_p.noise_sigma)), ZERO, ONE)
               ELSE xl
     IN  /\ self_rng' = IF noisy THEN RngNext(self_rng) ELSE self_rng
         /\ run_x' = xn
         /\ xdot' = FDiv(FSub(xn, run_x), self_p.dt)
  /\ stepAt' = "generators"
  /\ UNCHANGED <<rho, run_n, LT, LD, LF, Lcomm, E_trace, drift_trace, eps, kick,
                 traceBad>>
  /\ UNCHANGED loopFrame
  /\ UNCHANGED notSim

\* lines 110-113: Ht, LT, LD, LF
StepGenerators ==
  /\ simPc = "loop"
  /\ stepAt = "generators"
  /\ LT' = L_T(rho, H_t(self_p, run_x))
  /\ LD' = L_D(self_p, rho)
  /\ LF' = L_F(self_p, rho, xdot)
  /\ eps' = Epsilon(self_p, run_x)
  /\ kick' = KickK(self_p, xdot)
  /\ stepAt' = "commutator"
  /\ UNCHANGED <<self_rng, rho, run_x, run_n, xdot, Lcomm, E_trace, drift_trace,
                 traceBad>>
  /\ UNCHANGED loopFrame
  /\ UNCHANGED notSim

\* line 115: Lcomm
StepCommutator ==
  /\ simPc = "loop"
  /\ stepAt = "commutator"
  /\ Lcomm' = commutator_term(self_p, rho, LD, LF)
  /\ stepAt' = "euler"
  /\ UNCHANGED <<self_rng, rho, run_x, run_n, xdot, LT, LD, LF, E_trace, drift_trace,
                 eps, kick, traceBad>>
  /\ UNCHANGED loopFrame
  /\ UNCHANGED notSim

\* lines 118-119: the Euler step
StepEuler ==
  /\ simPc = "loop"
  /\ stepAt = "euler"
  /\ rho' = EulerUpdate(self_p, rho, LT, LD, LF, Lcomm)
  /\ stepAt' = "hermitize"
  /\ UNCHANGED <<self_rng, run_x, run_n, xdot, LT, LD, LF, Lcomm, E_trace,
                 drift_trace, eps, kick, traceBad>>
  /\ UNCHANGED loopFrame
  /\ UNCHANGED notSim

\* line 122
StepHermitize ==
  /\ simPc = "loop"
  /\ stepAt = "hermitize"
  /\ rho' = Hermitize(rho)
  /\ stepAt' = "renormalize"
  /\ UNCHANGED <<self_rng, run_x, run_n, xdot, LT, LD, LF, Lcomm, E_trace,
                 drift_trace, eps, kick, traceBad>>
  /\ UNCHANGED loopFrame
  /\ UNCHANGED notSim

\* line 123: the division is carried out whatever the trace is
StepRenormalize ==
  /\ simPc = "loop"
  /\ stepAt = "renormalize"
  /\ rho' = Renormalize(rho)
  /\ traceBad' = (traceBad \/ Trace(rho)[1] = 0 \/ ~IsFinite(Trace(rho)[1]))
  /\ stepAt' = "record"
  /\ UNCHANGED <<self_rng, run_x, run_n, xdot, LT, LD, LF, Lcomm, E_trace,
                 drift_trace, eps, kick>>
  /\ UNCHANGED loopFrame
  /\ UNCHANGED notSim

\* lines 125-130: the energy sample and, if n > 10, the drift sample
StepRecord ==
  /\ simPc = "loop"
  /\ stepAt = "record"
  /\ LET E == Energy(self_p, rho)
         Es == Append(E_trace, E)
         lo == IF run_n - DriftWindow > 0 THEN run_n - DriftWindow ELSE 0
     IN  /\ E_trace' = Es
         /\ drift_trace' = IF run_n > DriftAfter
                           THEN Append(drift_trace,
                                       FAbs(FSub(E, FMean(SubSeq(Es, lo + 1, run_n)))))
                           ELSE drift_trace
  /\ run_n' = run_n + 1
  /\ stepAt' = "chaos"
  /\ UNCHANGED <<self_rng, rho, run_x, xdot, LT, LD, LF, Lcomm, eps, kick, traceBad>>
  /\ UNCHANGED loopFrame
  /\ UNCHANGED notSim

\* lines 132-140: the statistics are computed and run() returns
Finish ==
  /\ simPc = "loop"
  /\ stepAt = "chaos"
  /\ run_n >= self_p.steps
  /\ result' = <<E_trace, Stats(E_trace, drift_trace)>>
  /\ firstRun' = IF firstRun = <<>>
                 THEN <<rngStart, <<E_trace, Stats(E_trace, drift_trace)>>>>
                 ELSE firstRun
  /\ simPc' = "done"
  /\ UNCHANGED <<self_p, self_rng, rho0Arg, rArg, simObj, runNo, runsTotal, rho,
                 run_x0, run_x1, run_x, warm, run_n, E_trace, drift_trace, eps, kick,
                 traceBad, rngStart, stepAt, xdot, LT, LD, LF, Lcomm>>
  /\ UNCHANGED notSim

Next ==
  \/ NewSimulator
  \/ RunBegin
  \/ WarmupIter
  \/ LoopEnter
  \/ StepChaos
  \/ StepGenerators
  \/ StepCommutator
  \/ StepEuler
  \/ StepHermitize
  \/ StepRenormalize
  \/ StepRecord
  \/ Finish

Init == InitSim /\ TauIdle /\ FIdle /\ DfIdle /\ LaterIdle
Spec == Init /\ [][Next]_vars

(***************************************************************************)
(* test_bounded_without_noise  (tests/test_coupled_superop.py:11-15)        *)
(***************************************************************************)
TestSteps == 2000

\* lines 12-14: p = UTFParams(lam=0.10, eta=0.10, noise_sigma=0.0, steps=2000,
\* dt=0.01, seed=1); sim = CoupledUTFSimulator(p); sim.run(r=3.80)
InitTest ==
  /\ self_p = UTFParams(DefaultGamma, FxLit(10, 100), FxLit(10, 100), FxLit(1, 100),
                        TestSteps, 1, ZERO)
  /\ rho0Arg = <<>>
  /\ rArg = FxLit(380, 100)
  /\ self_rng = RngSeeded(1)
  /\ simPc = "idle"
  /\ simObj = 1
  /\ runNo = 0
  /\ runsTotal = 0
  /\ rho = <<>>
  /\ run_x0 = 0
  /\ run_x1 = 0
  /\ run_x = 0
  /\ warm = 0
  /\ run_n = 0
  /\ stepAt = "chaos"
  /\ xdot = 0
  /\ LT = <<>>
  /\ LD = <<>>
  /\ LF = <<>>
  /\ Lcomm = <<>>
  /\ E_trace = <<>>
  /\ drift_trace = <<>>
  /\ eps = 0
  /\ kick = 0
  /\ traceBad = FALSE
  /\ rngStart = 0
  /\ result = <<>>
  /\ firstRun = <<>>

\* the test makes one call of run on its simulator
TestRun == simPc = "idle" /\ RunBegin

\* lines 101-130: one whole iteration of the stepping loop, its statements
\* taken in order
RunIteration ==
  /\ simPc = "loop"
  /\ stepAt = "chaos"
  /\ run_n < self_p.steps
  /\ self_rng' = IF NoiseActive(self_p) THEN RngNext(self_rng) ELSE self_rng
  /\ run_x' = IF NoiseActive(self_p)
              THEN Clip(FAdd(logistic_step(run_x, rArg),
                             RngNormal(self_rng, self_p.noise_sigma)), ZERO, ONE)
              ELSE logistic_step(run_x, rArg)
  /\ xdot' = FDiv(FSub(run_x', run_x), self_p.dt)
  /\ LT' = L_T(rho, H_t(self_p, run_x'))
  /\ LD' = L_D(self_p, rho)
  /\ LF' = L_F(self_p, rho, xdot')
  /\ eps' = Epsilon(self_p, run_x')
  /\ kick' = KickK(self_p, xdot')
  /\ Lcomm' = commutator_term(self_p, rho, LD', LF')
  \* the matrix after the Euler step and after re-Hermitization, each
  \* computed once
  /\ \E euler \in {EulerUpdate(self_p, rho, LT', LD', LF', Lcomm')} :
        \E herm \in {Hermitize(euler)} :
           /\ rho' = Renormalize(herm)
           /\ traceBad' = (traceBad \/ Trace(herm)[1] = 0 \/ ~IsFinite(Trace(herm)[1]))
  /\ E_trace' = Append(E_trace, Energy(self_p, rho'))
  /\ drift_trace' =
        IF run_n > DriftAfter
        THEN Append(drift_trace,
                    FAbs(FSub(E_trace'[run_n + 1],
                              FMean(SubSeq(E_trace,
                                           (IF run_n - DriftWindow > 0
                                            THEN run_n - DriftWindow ELSE 0) + 1,
                                           run_n)))))
        ELSE drift_trace
  /\ run_n' = run_n + 1
  /\ UNCHANGED stepAt
  /\ UNCHANGED loopFrame
  /\ UNCHANGED notSim

NextTest ==
  \/ TestRun
  \/ WarmupIter
  \/ LoopEnter
  \/ RunIteration
  \/ Finish

InitTestAll == InitTest /\ TauIdle /\ FIdle /\ DfIdle /\ LaterIdle
SpecTest == InitTestAll /\ [][NextTest]_vars

(***************************************************************************)
(* Two simulators whose parameters differ only in the seed.                 *)
(***************************************************************************)
SeedChoices == {0, 1, 2, NoSeed}

\* lines 45-47: a second simulator is constructed from the same parameters
\* but for seed; it is then run with the same rho0 and r
NewSimulatorReseed ==
  /\ simPc = "done"
  /\ runsTotal < MaxRuns
  /\ simObj = 1
  /\ \E sd \in SeedChoices \ {self_p.seed} :
        /\ self_p' = [self_p EXCEPT !.seed = sd]
        /\ self_rng' \in RngAfterInit(sd)
  /\ simObj' = simObj + 1
  /\ runNo' = 0
  /\ simPc' = "idle"
  /\ UNCHANGED <<rho0Arg, rArg, runsTotal, rho, run_x0, run_x1, run_x, warm,
                 run_n, E_trace, drift_trace, eps, kick, traceBad, rngStart, result,
                 firstRun, stepAt, xdot, LT, LD, LF, Lcomm>>
  /\ UNCHANGED notSim

NextSeed ==
  \/ NewSimulator
  \/ NewSimulatorReseed
  \/ RunBegin
  \/ WarmupIter
  \/ LoopEnter
  \/ StepChaos
  \/ StepGenerators
  \/ StepCommutator
  \/ StepEuler
  \/ StepHermitize
  \/ StepRenormalize
  \/ StepRecord
  \/ Finish

InitSeed == InitSim /\ TauIdle /\ FIdle /\ DfIdle /\ LaterIdle
SpecSeed == InitSeed /\ [][NextSeed]_vars

(***************************************************************************)
(* Claims about the simulator                                              *)
(***************************************************************************)
\* rho = dagger(rho); a NaN entry equals nothing, itself included
IsHermitian(A) ==
  /\ \A i \in 1..4 : ~IsNaN(A[i][1]) /\ ~IsNaN(A[i][2])
  /\ A = dagger(A)

\* an iteration of the stepping loop has just been completed
AfterIteration ==
  /\ simPc \in {"loop", "done"}
  /\ stepAt = "chaos"
  /\ run_n >= 1

\* C1 (as stated): after every iteration of run() rho is Hermitian and has
\* trace exactly 1, for every parameter set and initial rho0 for which the run
\* completes, and the energy sample of the step is taken from that matrix.
C1_HermitianUnitTrace ==
  AfterIteration =>
     /\ IsHermitian(rho)
     /\ Trace(rho) = <<ONE, 0>>
     /\ E_trace[run_n] = Energy(self_p, rho)

\* C2 (as stated): a run whose renormalization met a zero or non-finite trace
\* ends in a numerical-instability error; it never returns a result.
C2_InstabilityIsAnError ==
  traceBad => simPc # "done"

InvalidConfig == FLe(self_p.dt, ZERO) \/ self_p.steps <= 0

\* C3 (as stated): a configuration with dt <= 0 or steps <= 0 is rejected at
\* construction: no warm-up iteration and no step is executed for it and
\* run() never returns a result for it.
C3_InvalidConfigRejected ==
  (simPc # "absent" /\ InvalidConfig) =>
     /\ warm = 0
     /\ run_n = 0
     /\ simPc # "done"

GeneratorsEvaluated ==
  /\ simPc = "loop"
  /\ stepAt \in {"commutator", "euler"}

\* C4 (as stated): a negative gamma or lam never reaches the dynamics: for
\* gamma < 0 the dephasing term, and for lam < 0 both epsilon(x) and the kick
\* k, are computed as for the value 0.
C4_NegativeRatesClamped ==
  GeneratorsEvaluated =>
     /\ (self_p.gamma < 0 => LD = L_D([self_p EXCEPT !.gamma = ZERO], rho))
     /\ (self_p.lam < 0 => (eps = 0 /\ kick = 0))

\* C6 (as stated): two runs with identical UTFParams carrying the same integer
\* seed, the same r and the same rho0 return identical energy traces and
\* statistics, also when noise_sigma > 0: every run() that returns, returns what
\* the first run with these arguments returned.
C6_SameParamsSameResult ==
  (simPc = "done" /\ self_p.seed # NoSeed) => result = firstRun[2]

\* C7 (as stated): no state survives across runs: a later run() on the same
\* object starts from the same generator state as the first call and returns
\* the same result.
C7_RerunSameResult ==
  (simPc = "done" /\ simObj = 1 /\ runNo >= 2) =>
     /\ rngStart = firstRun[1]
     /\ result = firstRun[2]

\* C8 (as stated): for any run() that returns, every sample of the returned
\* energy trace is a finite real number and the trace holds exactly
\* params.steps samples.
C8_EnergyFiniteOnePerStep ==
  simPc = "done" =>
     /\ Len(result[1]) = self_p.steps
     /\ \A i \in 1..Len(result[1]) : IsFinite(result[1][i])

\* C20 (as stated): with eta = 0 the cross term returned by _commutator_term
\* is the zero matrix for every rho and every xdot, so each step's update is
\* exactly rho + dt*(L_T + L_D + L_F), as in a run without the cross term.
C20_EtaZeroDecouples ==
  /\ []((simPc = "loop" /\ stepAt = "euler" /\ self_p.eta = ZERO) => Lcomm = RhoZero)
  /\ [][(simPc = "loop" /\ stepAt = "euler" /\ self_p.eta = ZERO) =>
           rho' = MAdd(rho, MScale(CReal(self_p.dt), MAdd(MAdd(LT, LD), LF)))]_vars

\* C21: for the run with noise_sigma = 0, lam = 0.10, eta = 0.10,
\* steps = 2000, dt = 0.01, r = 3.80 and a fixed seed the returned drift_mean
\* is a number strictly below tau_crit(0.10) = 5, as is every drift sample
\* of the run.  (tau_crit takes lam in units of 1e-9 and yields sixteenths.)
C21_TestRunDriftBelowTauCrit ==
  /\ TauCrit(self_p.lam * (NanoOne \div SCALE)) = 5 * 16
  \* every drift sample is below the threshold when it is recorded
  /\ (simPc = "loop" /\ drift_trace # <<>>) =>
        /\ IsFinite(drift_trace[Len(drift_trace)])
        /\ drift_trace[Len(drift_trace)] * 16 <
              TauCrit(self_p.lam * (NanoOne \div SCALE)) * SCALE
  \* and so is the returned mean
  /\ simPc = "done" =>
        /\ IsFinite(result[2].drift_mean)
        /\ result[2].drift_mean * 16 < TauCrit(self_p.lam * (NanoOne \div SCALE)) * SCALE

\* C21 witness: the test's run has returned after its 2000 steps with 1989
\* drift samples, some of them non-zero
C21_Witness ==
  /\ simPc = "done"
  /\ Len(E_trace) = TestSteps
  /\ Len(drift_trace) = TestSteps - DriftAfter - 1
  /\ result[2].drift_mean > 0

\* the number of iterations of the stepping loop completed so far
StepsDone == run_n

\* the drift sample of 0-based step n: |E_n - mean of the min(n, 200) energy
\* samples before it|
DriftOf(n) ==
  LET lo == IF n - DriftWindow > 0 THEN n - DriftWindow ELSE 0
  IN  FAbs(FSub(E_trace[n + 1], FMean(SubSeq(E_trace, lo + 1, n))))

\* C22 (as stated): a drift sample is recorded at 0-based step n if and only
\* if n >= 10, so N completed steps have yielded max(0, N - 10) samples, and
\* the sample of step n is |E_n - mean of the min(n, 200) preceding samples|.
C22_DriftFromStepTen ==
  AfterIteration =>
     /\ Len(drift_trace) = (IF StepsDone > DriftAfter THEN StepsDone - DriftAfter ELSE 0)
     /\ \A n \in DriftAfter..(StepsDone - 1) : drift_trace[n - DriftAfter + 1] = DriftOf(n)

InUnitInterval(v) == IsFinite(v) /\ ZERO <= v /\ v <= ONE

\* C23: the chaos value stays in [0, 1] at every point of a run: after each
\* warm-up iteration (both trajectories), after each logistic step and after
\* each noise perturbation, for every r and every noise_sigma >= 0.
C23_ChaosInUnitInterval ==
  simPc \in {"warmup", "loop", "done"} =>
     /\ InUnitInterval(run_x0)
     /\ InUnitInterval(run_x1)
     /\ InUnitInterval(run_x)

\* the position that follows pos inside one iteration of the stepping loop
NextPos(pos) ==
  CASE pos = "chaos"       -> "generators"
    [] pos = "generators"  -> "commutator"
    [] pos = "commutator"  -> "euler"
    [] pos = "euler"       -> "hermitize"
    [] pos = "hermitize"   -> "renormalize"
    [] pos = "renormalize" -> "record"
    [] pos = "record"      -> "chaos"

\* C24: ordering inside run: the map has been iterated exactly 100 times
\* before the stepping loop is entered and rho is untouched until then; within
\* every step the map is advanced (noise, clip) first, then the generator
\* terms are evaluated on the advanced x and the not yet updated rho, then the
\* Euler update, then re-Hermitization, then renormalization change rho in
\* that order, and the energy sample of the renormalized rho is recorded last.
C24_RunOrdering ==
  /\ [](simPc = "loop" => warm = SimWarmupIters)
  /\ [][simPc = "warmup" => rho' = rho]_vars
  /\ [][(simPc = "loop" /\ simPc' = "loop" /\ stepAt' # stepAt) =>
           stepAt' = NextPos(stepAt)]_vars
  /\ [][(simPc = "loop" /\ run_x' # run_x) => stepAt = "chaos"]_vars
  /\ [][(simPc = "loop" /\ <<LT, LD, LF>>' # <<LT, LD, LF>>) =>
           /\ stepAt = "generators"
           /\ LT' = L_T(rho, H_t(self_p, run_x))
           /\ LD' = L_D(self_p, rho)
           /\ LF' = L_F(self_p, rho, xdot)]_vars
  /\ [][(simPc = "loop" /\ Lcomm' # Lcomm) => stepAt = "commutator"]_vars
  /\ [][(simPc = "loop" /\ rho' # rho) =>
           \/ stepAt = "euler" /\ rho' = EulerUpdate(self_p, rho, LT, LD, LF, Lcomm)
           \/ stepAt = "hermitize" /\ rho' = Hermitize(rho)
           \/ stepAt = "renormalize" /\ rho' = Renormalize(rho)]_vars
  /\ [][(simPc = "loop" /\ E_trace' # E_trace) =>
           /\ stepAt = "record"
           /\ stepAt' = "chaos"
           /\ E_trace' = Append(E_trace, Energy(self_p, rho))]_vars

\* C24 witness: a second step of a run is about to record its energy sample,
\* after the 100 warm-up iterations and one whole iteration of the loop
C24_Witness ==
  /\ simPc = "loop"
  /\ stepAt = "record"
  /\ run_n >= 1
  /\ warm = SimWarmupIters
  /\ Len(E_trace) = run_n

\* C27: with noise_sigma = 0 the integrator never draws from its generator
\* during a run, and a run returns the same energy trace and statistics as
\* the first run whatever the seed of its simulator is (seed=None included).
C27_SeedIrrelevantWithoutNoise ==
  /\ [][(simPc \in {"warmup", "loop"} /\ self_p.noise_sigma = ZERO) =>
           self_rng' = self_rng]_vars
  /\ []((simPc = "done" /\ self_p.noise_sigma = ZERO) => result = firstRun[2])

\* C27 witness: a noise-free run of at least one step has returned on a
\* second simulator whose generator started in another state than the first
C27_Witness ==
  /\ simPc = "done"
  /\ simObj = 2
  /\ self_p.noise_sigma = ZERO
  /\ rngStart # firstRun[1]
  /\ Len(E_trace) >= 1
  /\ result = firstRun[2]

\* C28: the second half of the cross term, L_F(L_D(rho), xdot = 0), is the
\* zero matrix for every rho and every parameter set, so the cross term
\* always equals eta * L_D(L_F(rho, xdot)) and vanishes whenever lam = 0 or
\* xdot = 0.
C28_CrossTermSecondHalfZero ==
  (simPc = "loop" /\ stepAt = "euler") =>
     /\ L_F(self_p, LD, ZERO) = RhoZero
     /\ Lcomm = MScale(CReal(self_p.eta), L_D(self_p, LF))
     /\ (self_p.lam = ZERO \/ xdot = ZERO) => Lcomm = RhoZero

\* C30: a run with steps <= 11 records no drift sample and returns
\* drift_mean = 0 and drift_max = 0; a run with steps >= 12 computes
\* drift_mean and drift_max from the recorded samples only, and they satisfy
\* 0 <= drift_mean <= drift_max.
C30_DriftStatistics ==
  simPc = "done" =>
     /\ self_p.steps <= DriftAfter + 1 =>
           /\ drift_trace = <<>>
           /\ result[2].drift_mean = ZERO
           /\ result[2].drift_max = ZERO
     /\ self_p.steps >= DriftAfter + 2 =>
           /\ drift_trace # <<>>
           /\ result[2].drift_mean = FMean(drift_trace)
           /\ result[2].drift_max = FMaxSeq(drift_trace)
           /\ FLe(ZERO, result[2].drift_mean)
           /\ FLe(result[2].drift_mean, result[2].drift_max)

(***************************************************************************)
(* decohere / falsify_D_operator  (test_D_decoherence_violation.py:10-38)   *)
(***************************************************************************)
\* lines 10-13: density_matrix(purity), a real array
density_matrix(pur) ==
  LET a == pur
      d == FSub(ONE, pur)
      t == FAdd(a, d)
  IN  <<CReal(FDiv(a, t)), CReal(FDiv(ZERO, t)), CReal(FDiv(ZERO, t)), CReal(FDiv(d, t))>>

\* the slip "the factor grows": p = exp(+gamma*dt)
decohereGrow(r0, g, dt) ==
  LET p == FExp(FMul(g, dt))
  IN  <<r0[1], CMul(r0[2], CReal(p)), CMul(r0[3], CReal(p)), r0[4]>>

\* lines 15-21: decohere(rho, gamma, dt)
decohere(r0, g, dt) ==
  LET p == FExp(FMul(FNeg(g), dt))
  IN  <<r0[1], CMul(r0[2], CReal(p)), CMul(r0[3], CReal(p)), r0[4]>>

\* lines 23-24: purity(rho) = np.real(np.trace(rho @ rho))
purity(r0) == Trace(MatMul(r0, r0))[1]

DDefaultSteps == 10
DPurity0 == FxLit(9, 10)
DGamma == FxLit(2, 10)
DDt == FxLit(5, 10)
DPurityTol == FxLit(1, 100000000)

MaxDSteps == 12
DStepsSet == {0, DDefaultSteps, MaxDSteps}

\* Hermitian arguments of decohere: diagonal and coherent states, and
\* Hermitian matrices that are no density matrices
DRhos ==
  {<<CReal(a), b, CConj(b), CReal(d)>> :
      a \in {FxLit(9, 10), FxLit(5, 10)}, d \in {FxLit(1, 10), FxLit(5, 10)},
      b \in {<<0, 0>>, <<FxLit(3, 10), 0>>, <<0, -FxLit(5, 10)>>,
             <<FxLit(25, 100), FxLit(25, 100)>>}}
  \cup {MScale(CReal(IntToFx(2)), sigma_y), sigma_z, sigma_x}
DRates == {ZERO, FxLit(2, 10), -FxLit(2, 10), ONE}
DDts == {ZERO, FxLit(5, 10), -FxLit(5, 10), ONE}

InitD ==
  /\ dPc = "call"
  /\ dRhoIn \in DRhos
  /\ dGamma \in DRates
  /\ dDt \in DDts
  /\ dOut = <<>>
  /\ dSteps \in DStepsSet
  /\ dRho = <<>>
  /\ dLast = 0
  /\ dNow = 0
  /\ dT = 0
  /\ dResult = "none"

\* lines 15-21: the call decohere(rho, gamma, dt)
DecohereCall ==
  /\ dPc = "call"
  /\ dOut' = decohere(dRhoIn, dGamma, dDt)
  /\ dPc' = "begin"
  /\ UNCHANGED <<dRhoIn, dGamma, dDt, dSteps, dRho, dLast, dNow, dT, dResult>>
  /\ UNCHANGED notD

\* lines 28-29: falsify_D_operator(steps) is entered
DFalsifyBegin ==
  /\ dPc = "begin"
  /\ dRho' = density_matrix(DPurity0)
  /\ dLast' = purity(density_matrix(DPurity0))
  /\ dT' = 0
  /\ dPc' = "loop"
  /\ UNCHANGED <<dRhoIn, dGamma, dDt, dOut, dSteps, dNow, dResult>>
  /\ UNCHANGED notD

\* lines 30-36: one iteration of the loop
DLoopIter ==
  /\ dPc = "loop"
  /\ dT < dSteps
  /\ LET r1 == decohere(dRho, DGamma, DDt)
         p_now == purity(r1)
     IN  /\ dRho' = r1
         /\ dNow' = p_now
         /\ IF FGt(p_now, FAdd(dLast, DPurityTol))
            THEN /\ dResult' = "False"
                 /\ dPc' = "done"
                 /\ UNCHANGED <<dLast, dT>>
            ELSE /\ dLast' = p_now
                 /\ dT' = dT + 1
                 /\ UNCHANGED <<dResult, dPc>>
  /\ UNCHANGED <<dRhoIn, dGamma, dDt, dOut, dSteps>>
  /\ UNCHANGED notD

\* lines 37-38: the loop is exhausted
DReturnTrue ==
  /\ dPc = "loop"
  /\ dT >= dSteps
  /\ dResult' = "True"
  /\ dPc' = "done"
  /\ UNCHANGED <<dRhoIn, dGamma, dDt, dOut, dSteps, dRho, dLast, dNow, dT>>
  /\ UNCHANGED notD

NextD == DecohereCall \/ DFalsifyBegin \/ DLoopIter \/ DReturnTrue
InitDAll == InitD /\ FirstIdle /\ FilesIdle /\ TuneIdle /\ LogIdle /\ TfIdle /\ BatIdle /\ VizIdle
SpecD == InitDAll /\ [][NextD]_vars

\* the decohere call has returned
Decohered == dPc \in {"begin", "loop", "done"}

\* C11: for every Hermitian rho and every gamma*dt >= 0 the purity of
\* decohere(rho) is at most the purity of rho plus 1e-8, and
\* falsify_D_operator(steps) returns True for every steps >= 0.
C11_PurityNeverGrows ==
  /\ (Decohered /\ IsHermitian(dRhoIn) /\ FMul(dGamma, dDt) >= 0) =>
        FLe(purity(dOut), FAdd(purity(dRhoIn), DPurityTol))
  /\ (dPc = "done" => dResult = "True")

\* C11 witness: decohere has strictly lowered the purity of a coherent state
\* under gamma*dt > 0, and the 10-step check from density_matrix(0.9) has
\* returned True
C11_Witness ==
  /\ dPc = "done"
  /\ dSteps = DDefaultSteps
  /\ dT = DDefaultSteps
  /\ dResult = "True"
  /\ dRhoIn[2] # <<0, 0>>
  /\ FMul(dGamma, dDt) > 0
  /\ FLt(purity(dOut), purity(dRhoIn))

(***************************************************************************)
(* The tuning workflow: run_f_tuning.py and tuning/logger.py                *)
(* A csv file is [exists, rows/lines]; a row of the sweep is                *)
(* [r, tolerance, adapt, passed]; a line of the log is a header or a row    *)
(* [r, tolerance, adapt, num_samples] (the columns timestamp, git_commit,   *)
(* zenodo_doi and arxiv_version come from the environment and steer no      *)
(* branch).                                                                 *)
(***************************************************************************)
MissingFile == [exists |-> FALSE, content |-> <<>>]
FileOf(q) == [exists |-> TRUE, content |-> q]

DefaultSweepPath == "data/f_sweep_results.csv"
OtherSweepPath == "data/other_sweep.csv"

\* test_F_false_chaos_amplification.py:26-27: k warm-up iterations (halved
\* recursively: k iterations are k \div 2 of them, then the rest)
RECURSIVE FWarmedUp(_, _, _)
FWarmedUp(k, x, r) ==
  IF k = 0 THEN x
  ELSE IF k = 1 THEN LogisticMap(x, r)
  ELSE LET y == FWarmedUp(k \div 2, x, r)
       IN  IF IsNaN(y) THEN y ELSE FWarmedUp(k - (k \div 2), y, r)

\* test_F_false_chaos_amplification.py:32-50: one iteration of the main loop
\* on the locals st = [i, x0, x1, avg, ret]; ret is "none" until the function
\* has returned False
FLoopBody(st, tol, r) ==
  IF st.ret # "none" THEN st
  ELSE LET x0n == LogisticMap(st.x0, r)
           x1n == LogisticMap(st.x1, r)
       IN  IF FExceeds(st.i, FRelDE(x0n, x1n, st.avg), tol)
           THEN [st EXCEPT !.ret = "False"]
           ELSE [i |-> st.i + 1, x0 |-> x0n, x1 |-> x1n,
                 avg |-> FAvgNext(x0n, x1n, st.avg), ret |-> "none"]

\* k iterations of the main loop
RECURSIVE FLoopTimes(_, _, _, _)
FLoopTimes(k, st, tol, r) ==
  IF k = 0 THEN st
  ELSE IF k = 1 THEN FLoopBody(st, tol, r)
  ELSE LET half == FLoopTimes(k \div 2, st, tol, r)
       IN  IF half.ret # "none" THEN half ELSE FLoopTimes(k - (k \div 2), half, tol, r)

FDefaultSteps == 1000

\* falsify_F_operator(steps, tolerance, r) as a function of its arguments
falsify_F_operator(steps, tol, r) ==
  LET x0 == FWarmedUp(FWarmupIters, FxLit(5, 10), r)
      x1 == FWarmedUp(FWarmupIters, FxLit(500001, 1000000), r)
      st == FLoopTimes(steps, [i |-> 0, x0 |-> x0, x1 |-> x1, avg |-> FMeanE(x0, x1),
                               ret |-> "none"], tol, r)
  IN  st.ret = "none"

\* np.linspace(a, b, n)[i]
Linspace(a, b, n, i) == a + RoundDiv((b - a) * i, n - 1)

SweepRCount == 25
SweepTolCount == 10
SweepAdaptCount == 5

\* run_f_tuning.py:22-24: the rows of one (r, tol) pair, one per adapt;
\* falsify_F_operator(r=r, tolerance=tol) does not take adapt, so its verdict
\* is the same on all of them
SweepRowsOf(ri, ti) ==
  LET r == Linspace(FxLit(36, 10), FxLit(38, 10), SweepRCount, ri)
      tol == Linspace(FxLit(6, 100), FxLit(1, 10), SweepTolCount, ti)
      ok == falsify_F_operator(FDefaultSteps, tol, r)
  IN  [k \in 1..SweepAdaptCount |->
         [r |-> r, tolerance |-> tol,
          adapt |-> Linspace(FxLit(3, 1000), FxLit(6, 1000), SweepAdaptCount, k - 1),
          passed |-> ok]]

\* the rows of the (r, tol) pairs number lo..hi in grid order
RECURSIVE SweepRowsBetween(_, _)
SweepRowsBetween(lo, hi) ==
  IF lo = hi THEN SweepRowsOf(lo \div SweepTolCount, lo % SweepTolCount)
  ELSE LET mid == (lo + hi) \div 2
       IN  SweepRowsBetween(lo, mid) \o SweepRowsBetween(mid + 1, hi)

\* run_f_tuning.py:16-26: the rows run_real_sweep writes, in grid order
run_real_sweep(n) == SweepRowsBetween(0, SweepRCount * SweepTolCount - 1)

\* the slip "the filter is dropped": every row counts as stable
StableRowsAll(df) == df

\* run_f_tuning.py:37: stable = df[df["passed"] == True]
StableRows(df) == SelectSeq(df, LAMBDA row : row.passed = TRUE)

\* the slip "idxmax for idxmin"
BestFitMaxAdapt(stable) ==
  LET i == CHOOSE i \in 1..Len(stable) :
             /\ \A j \in 1..Len(stable) : stable[j].adapt <= stable[i].adapt
             /\ \A j \in 1..(i - 1) : stable[j].adapt < stable[i].adapt
  IN  [r |-> stable[i].r, tolerance |-> stable[i].tolerance, adapt |-> stable[i].adapt]

\* run_f_tuning.py:43-46: the row at idxmin of adapt (the first of the minimal
\* ones), as a dict of floats
BestFit(stable) ==
  LET i == CHOOSE i \in 1..Len(stable) :
             /\ \A j \in 1..Len(stable) : stable[i].adapt <= stable[j].adapt
             /\ \A j \in 1..(i - 1) : stable[j].adapt > stable[i].adapt
  IN  [r |-> stable[i].r, tolerance |-> stable[i].tolerance, adapt |-> stable[i].adapt]

HeaderLine == [kind |-> "header", r |-> 0, tolerance |-> 0, adapt |-> 0, num_samples |-> 0]

\* logger.py:32-41: entry
LogEntry(best_fit, num_samples) ==
  [kind |-> "row", r |-> best_fit.r, tolerance |-> best_fit.tolerance,
   adapt |-> best_fit.adapt, num_samples |-> num_samples]

\* the slip "the header is written by every call"
LogHeaderAlways(file) == TRUE

\* logger.py:48: header = not os.path.exists(log_path)
LogHeaderNeeded(file) == ~file.exists

\* logger.py:49: df.to_csv(log_path, mode="a", index=False, header=header)
LogAppended(file, header, entry) ==
  FileOf(file.content \o (IF header THEN <<HeaderLine>> ELSE <<>>) \o <<entry>>)

\* logger.py:30-51: log_tuning_result as one uninterrupted call
log_tuning_result(file, best_fit, num_samples) ==
  LogAppended(file, LogHeaderNeeded(file), LogEntry(best_fit, num_samples))

MaxSweepRows == 3
SweepRowVals ==
  {[r |-> rr, tolerance |-> FxLit(8, 100), adapt |-> a, passed |-> ok] :
      rr \in {FxLit(36, 10), FxLit(37, 10)}, a \in {FxLit(3, 1000), FxLit(6, 1000)},
      ok \in BOOLEAN}
SweepContents == UNION {[1..k -> SweepRowVals] : k \in 1..MaxSweepRows}
OldLog == FileOf(<<HeaderLine, LogEntry([r |-> FxLit(37, 10), tolerance |-> FxLit(8, 100),
                                         adapt |-> FxLit(3, 1000)], 1)>>)

SomeRow == [r |-> FxLit(36, 10), tolerance |-> FxLit(8, 100), adapt |-> FxLit(6, 1000),
            passed |-> TRUE]

\* the files found by a call of run_local_tuning(csv_path)
TuneFileSystems ==
  {[path |-> DefaultSweepPath,
    files |-> [q \in {DefaultSweepPath, OtherSweepPath} |->
                 IF q = DefaultSweepPath THEN FileOf(c) ELSE MissingFile]] :
      c \in SweepContents}
  \cup
  {[path |-> OtherSweepPath,
    files |-> [q \in {DefaultSweepPath, OtherSweepPath} |->
                 IF q = OtherSweepPath THEN FileOf(c) ELSE FileOf(<<SomeRow>>)]] :
      c \in SweepContents}
  \cup
  {[path |-> DefaultSweepPath,
    files |-> [q \in {DefaultSweepPath, OtherSweepPath} |-> MissingFile]]}
  \cup
  {[path |-> OtherSweepPath,
    files |-> [q \in {DefaultSweepPath, OtherSweepPath} |->
                 IF q = OtherSweepPath /\ other THEN FileOf(<<SomeRow>>) ELSE MissingFile]] :
      other \in BOOLEAN}

InitTune ==
  /\ \E fs \in TuneFileSystems :
        /\ tuneCsvPath = fs.path
        /\ sweepFiles = fs.files
  /\ logFile \in (IF sweepFiles[DefaultSweepPath].exists THEN {MissingFile, OldLog}
                                                          ELSE {MissingFile})
  /\ tuneLog0 = logFile
  /\ tunePc = "start"
  /\ tuneDf = <<>>
  /\ tuneStable = <<>>
  /\ tuneBest = <<>>
  /\ tuneReport = "none"
  /\ tuneError = "none"

\* run_f_tuning.py:31-33: the sweep is generated when the default file is missing
TuneCheckSweep ==
  /\ tunePc = "start"
  /\ sweepFiles' = IF ~sweepFiles[DefaultSweepPath].exists
                   THEN [sweepFiles EXCEPT ![DefaultSweepPath] = FileOf(run_real_sweep(200))]
                   ELSE sweepFiles
  /\ tunePc' = "read"
  /\ UNCHANGED <<logFile, tuneCsvPath, tuneDf, tuneStable, tuneBest, tuneReport,
                 tuneError, tuneLog0>>
  /\ UNCHANGED notTune

\* run_f_tuning.py:35-37: pd.read_csv(csv_path) raises when the file is missing
TuneRead ==
  /\ tunePc = "read"
  /\ IF sweepFiles[tuneCsvPath].exists
     THEN /\ tuneDf' = sweepFiles[tuneCsvPath].content
          /\ tuneStable' = StableRows(sweepFiles[tuneCsvPath].content)
          /\ tunePc' = "select"
          /\ UNCHANGED tuneError
     ELSE /\ tuneError' = "FileNotFoundError"
          /\ tunePc' = "done"
          /\ UNCHANGED <<tuneDf, tuneStable>>
  /\ UNCHANGED <<sweepFiles, logFile, tuneCsvPath, tuneBest, tuneReport, tuneLog0>>
  /\ UNCHANGED notTune

\* run_f_tuning.py:38-40: no stable row: a warning is printed, the call returns
TuneNoStable ==
  /\ tunePc = "select"
  /\ tuneStable = <<>>
  /\ tuneReport' = "no-stable"
  /\ tunePc' = "done"
  /\ UNCHANGED <<sweepFiles, logFile, tuneCsvPath, tuneDf, tuneStable, tuneBest,
                 tuneError, tuneLog0>>
  /\ UNCHANGED notTune

\* run_f_tuning.py:42-46: best_fit and result
TuneSelect ==
  /\ tunePc = "select"
  /\ tuneStable # <<>>
  /\ tuneBest' = BestFit(tuneStable)
  /\ tunePc' = "log"
  /\ UNCHANGED <<sweepFiles, logFile, tuneCsvPath, tuneDf, tuneStable, tuneReport,
                 tuneError, tuneLog0>>
  /\ UNCHANGED notTune

\* run_f_tuning.py:48-49: log_tuning_result(result, num_samples=len(df))
TuneLog ==
  /\ tunePc = "log"
  /\ logFile' = log_tuning_result(logFile, tuneBest, Len(tuneDf))
  /\ tuneReport' = "best-fit"
  /\ tunePc' = "done"
  /\ UNCHANGED <<sweepFiles, tuneCsvPath, tuneDf, tuneStable, tuneBest, tuneError,
                 tuneLog0>>
  /\ UNCHANGED notTune

NextTune == TuneCheckSweep \/ TuneRead \/ TuneNoStable \/ TuneSelect \/ TuneLog
InitTuneAll == InitTune /\ FirstIdle /\ DIdle /\ LogIdle /\ TfIdle /\ BatIdle /\ VizIdle
SpecTune == InitTuneAll /\ [][NextTune]_vars

(***************************************************************************)
(* run_real_sweep on a bounded grid.  falsify_F_operator(r=r, tolerance=tol)*)
(* is a deterministic function of its two arguments; its verdicts on the    *)
(* grid are a table indexed by the (r, tol) pair, and every table is tried. *)
(***************************************************************************)
GridRCount == 2
GridTolCount == 3
GridPairs == GridRCount * GridTolCount
GridRows == GridPairs * SweepAdaptCount
GridVerdicts == [0..(GridPairs - 1) -> BOOLEAN]

\* the slip "the verdict of a grid point depends on its adapt"
SweepFlagByAdapt(verdict, pair, k) == verdict[pair] /\ k > 0

\* run_f_tuning.py:23: ok = falsify_F_operator(r=r, tolerance=tol, DEBUG=False)
\* at the k-th adapt of the pair
SweepFlag(verdict, pair, k) == verdict[pair]

\* run_f_tuning.py:20-24: the tuple appended at the idx-th innermost iteration
SweepGridRow(verdict, idx) ==
  LET pair == idx \div SweepAdaptCount
      k == idx % SweepAdaptCount
  IN  [r |-> Linspace(FxLit(36, 10), FxLit(38, 10), GridRCount, pair \div GridTolCount),
       tolerance |-> Linspace(FxLit(6, 100), FxLit(1, 10), GridTolCount, pair % GridTolCount),
       adapt |-> Linspace(FxLit(3, 1000), FxLit(6, 1000), SweepAdaptCount, k),
       passed |-> SweepFlag(verdict, pair, k)]

\* run_f_tuning.py:19-26: the rows written, in grid order
SweepGrid(verdict) == [i \in 1..GridRows |-> SweepGridRow(verdict, i - 1)]

InitSweep ==
  /\ tuneCsvPath = DefaultSweepPath
  /\ sweepFiles \in {[q \in {DefaultSweepPath, OtherSweepPath} |-> MissingFile],
                     [q \in {DefaultSweepPath, OtherSweepPath} |->
                        IF q = OtherSweepPath THEN FileOf(<<SomeRow>>) ELSE MissingFile]}
  /\ logFile \in {MissingFile, OldLog}
  /\ tuneLog0 = logFile
  /\ tunePc = "start"
  /\ tuneDf = <<>>
  /\ tuneStable = <<>>
  /\ tuneBest = <<>>
  /\ tuneReport = "none"
  /\ tuneError = "none"

\* run_f_tuning.py:31-33 with 16-27: the default file is missing and the sweep
\* is generated and saved there
TuneGenerateSweep ==
  /\ tunePc = "start"
  /\ ~sweepFiles[DefaultSweepPath].exists
  /\ \E verdict \in GridVerdicts :
        sweepFiles' = [sweepFiles EXCEPT ![DefaultSweepPath] = FileOf(SweepGrid(verdict))]
  /\ tunePc' = "read"
  /\ UNCHANGED <<logFile, tuneCsvPath, tuneDf, tuneStable, tuneBest, tuneReport,
                 tuneError, tuneLog0>>
  /\ UNCHANGED notTune

NextSweep == TuneGenerateSweep \/ TuneRead \/ TuneNoStable \/ TuneSelect \/ TuneLog
InitSweepAll == InitSweep /\ FirstIdle /\ DIdle /\ LogIdle /\ TfIdle /\ BatIdle /\ VizIdle
SpecSweep == InitSweepAll /\ [][NextSweep]_vars

\* the rows of the sweep that was read which passed
PassingRows == {i \in 1..Len(tuneDf) : tuneDf[i].passed = TRUE}

\* C12: when the sweep holds a row with passed = True, run_local_tuning logs
\* a configuration that is one of the passing rows and whose adapt is at most
\* the adapt of every passing row; a row that did not pass is never selected.
C12_MinAdaptPassingRowLogged ==
  (tunePc = "done" /\ tuneError = "none" /\ PassingRows # {}) =>
     /\ \E i \in PassingRows :
           /\ tuneBest = [r |-> tuneDf[i].r, tolerance |-> tuneDf[i].tolerance,
                          adapt |-> tuneDf[i].adapt]
           /\ \A j \in PassingRows : tuneDf[i].adapt <= tuneDf[j].adapt
     /\ logFile.exists
     /\ logFile.content[Len(logFile.content)] = LogEntry(tuneBest, Len(tuneDf))
     /\ Len(logFile.content) = Len(tuneLog0.content) + (IF tuneLog0.exists THEN 1 ELSE 2)

\* C12 witness: a sweep with a failed row of small adapt and two passing rows
\* of different adapt, the larger first, has been tuned
C12_Witness ==
  /\ tunePc = "done"
  /\ tuneReport = "best-fit"
  /\ Len(tuneDf) = 3
  /\ ~tuneDf[1].passed /\ tuneDf[1].adapt = FxLit(3, 1000)
  /\ tuneDf[2].passed /\ tuneDf[2].adapt = FxLit(6, 1000)
  /\ tuneDf[3].passed /\ tuneDf[3].adapt = FxLit(3, 1000)
  /\ tuneBest.adapt = FxLit(3, 1000)

\* C13: when the sweep has rows and none of them passed, run_local_tuning
\* reports that no stable configuration was found, selects none, raises no
\* error and leaves the tuning log as it was (nothing appended, not created).
C13_NoStableNoLog ==
  (tunePc = "done" /\ tuneDf # <<>> /\ PassingRows = {}) =>
     /\ tuneReport = "no-stable"
     /\ tuneBest = <<>>
     /\ tuneError = "none"
     /\ logFile = tuneLog0

\* C13 witness: a sweep of failed rows only has been tuned while the log was
\* missing
C13_Witness ==
  /\ tunePc = "done"
  /\ Len(tuneDf) = 2
  /\ PassingRows = {}
  /\ tuneReport = "no-stable"
  /\ ~tuneLog0.exists
  /\ ~logFile.exists

\* the first row of the (r, tolerance) pair that row i of the sweep belongs to
PairStart(i) == ((i - 1) \div SweepAdaptCount) * SweepAdaptCount + 1

\* C25: in the generated sweep the flag of a grid point depends on r and
\* tolerance only: the five adapt values of one (r, tolerance) pair carry the
\* same flag; so whenever run_local_tuning selects a configuration, its adapt
\* is the smallest adapt of the grid (0.003) and it is the first passing row
\* with that adapt in grid order.
C25_AdaptNeverDecides ==
  tunePc \in {"select", "log", "done"} =>
     /\ Len(tuneDf) = GridRows
     /\ \A i \in 1..Len(tuneDf) :
           /\ tuneDf[i].passed = tuneDf[PairStart(i)].passed
           /\ tuneDf[i].r = tuneDf[PairStart(i)].r
           /\ tuneDf[i].tolerance = tuneDf[PairStart(i)].tolerance
     /\ tuneBest # <<>> =>
           /\ tuneBest.adapt = FxLit(3, 1000)
           /\ \A i \in 1..Len(tuneDf) : FxLit(3, 1000) <= tuneDf[i].adapt
           /\ \E i \in PassingRows :
                 /\ tuneBest = [r |-> tuneDf[i].r, tolerance |-> tuneDf[i].tolerance,
                                adapt |-> tuneDf[i].adapt]
                 /\ \A j \in PassingRows :
                       j < i => tuneDf[j].adapt # FxLit(3, 1000)

\* C25 witness: a sweep whose first pair failed and whose second pair passed
\* has been generated and tuned, and the second pair's first row was logged
C25_Witness ==
  /\ tunePc = "done"
  /\ tuneReport = "best-fit"
  /\ Len(tuneDf) = GridRows
  /\ ~tuneDf[1].passed
  /\ tuneDf[SweepAdaptCount + 1].passed
  /\ tuneBest.tolerance = tuneDf[SweepAdaptCount + 1].tolerance
  /\ tuneBest.adapt = FxLit(3, 1000)

\* C29: run_local_tuning(csv_path) never tries to read a sweep file that does
\* not exist: when the read of csv_path is reached the file is there (it was
\* found, or the sweep was generated at csv_path), for every csv_path, and
\* the call never ends in FileNotFoundError.
C29_SweepFileExistsWhenRead ==
  /\ tunePc = "read" => sweepFiles[tuneCsvPath].exists
  /\ tuneError # "FileNotFoundError"

(***************************************************************************)
(* log_tuning_result called repeatedly on one log path  (logger.py:30-51)   *)
(* A call reads whether the file exists (line 48) and appends afterwards    *)
(* (line 49); between the two another caller may run when calls overlap.    *)
(***************************************************************************)
MaxLogCalls == 3
LogCallers == 1..MaxLogCalls
LogBestFits ==
  {[r |-> FxLit(37, 10), tolerance |-> FxLit(8, 100), adapt |-> a] :
      a \in {FxLit(3, 1000), FxLit(6, 1000)}}

InitLog ==
  /\ logFile = MissingFile
  /\ sweepFiles = <<>>
  /\ logPc = [c \in LogCallers |-> "idle"]
  /\ logHdr = [c \in LogCallers |-> FALSE]
  /\ logArg = [c \in LogCallers |-> <<>>]
  /\ logCalls = <<>>
  /\ logPar \in BOOLEAN

\* no call is between its check and its write
LogQuiet == \A c \in LogCallers : logPc[c] \in {"idle", "done"}

\* logger.py:30-48: the call is entered, entry is built, header is decided
LogCheck(c) ==
  /\ logPc[c] = "idle"
  /\ logPar \/ LogQuiet
  /\ \E bf \in LogBestFits :
        /\ logArg' = [logArg EXCEPT ![c] = LogEntry(bf, c)]
        /\ logCalls' = Append(logCalls, LogEntry(bf, c))
  /\ logHdr' = [logHdr EXCEPT ![c] = LogHeaderNeeded(logFile)]
  /\ logPc' = [logPc EXCEPT ![c] = "checked"]
  /\ UNCHANGED <<logFile, logPar>>
  /\ UNCHANGED notLog

\* logger.py:49-51: the row (and the header, if decided so) is appended
LogWrite(c) ==
  /\ logPc[c] = "checked"
  /\ logFile' = LogAppended(logFile, logHdr[c], logArg[c])
  /\ logPc' = [logPc EXCEPT ![c] = "done"]
  /\ UNCHANGED <<logHdr, logArg, logCalls, logPar>>
  /\ UNCHANGED notLog

NextLog == (\E c \in LogCallers : LogCheck(c)) \/ (\E c \in LogCallers : LogWrite(c))
InitLogAll == InitLog /\ FirstIdle /\ DIdle /\ TuneIdle /\ TfIdle /\ BatIdle /\ VizIdle
SpecLog == InitLogAll /\ [][NextLog]_vars

LogDone == {c \in LogCallers : logPc[c] = "done"}
LogHeaderCount == Cardinality({i \in 1..Len(logFile.content) : logFile.content[i] = HeaderLine})
IsPrefix(p, q) == Len(p) <= Len(q) /\ SubSeq(q, 1, Len(p)) = p

\* C14: after any sequence of log_tuning_result calls on one path, starting
\* from a missing file, the file is one header line followed by one row per
\* call in call order, and each step leaves the earlier content as a prefix
\* of the new content.
C14_AppendOnlyOneHeader ==
  /\ [](~logPar =>
          IF LogDone = {}
          THEN logFile = MissingFile
          ELSE /\ logFile.exists
               /\ logFile.content =
                     <<HeaderLine>> \o SubSeq(logCalls, 1, Cardinality(LogDone)))
  /\ [][~logPar => IsPrefix(logFile.content, logFile'.content)]_vars

\* C14 witness: three calls, one after the other, have been logged
C14_Witness ==
  /\ ~logPar
  /\ LogDone = LogCallers
  /\ Len(logFile.content) = MaxLogCalls + 1
  /\ logFile.content[1] = HeaderLine
  /\ logFile.content[MaxLogCalls + 1] = logCalls[MaxLogCalls]

\* C15 (as stated): when calls of log_tuning_result on one path interleave,
\* the file still holds exactly one header line and one intact row per call.
C15_InterleavedWritesSerialized ==
  (logPar /\ LogQuiet /\ LogDone # {}) =>
     /\ LogHeaderCount = 1
     /\ logFile.content[1] = HeaderLine
     /\ Len(logFile.content) = Cardinality(LogDone) + 1
     /\ \A c \in LogDone : \E i \in 2..Len(logFile.content) : logFile.content[i] = logArg[c]

(***************************************************************************)
(* Transfuser  (operators.py:46-132)                                        *)
(* np.random.seed and np.random.rand act on one generator shared by the     *)
(* whole process; it is modelled by the same small stream as default_rng.   *)
(***************************************************************************)
\* np.random.rand() in generator state g: a uniform deviate of [0, 1)
RandUniform(g) == RoundDiv((2 * g + 1) * SCALE, 2 * RngModulus)
\* np.random.randint(1e6) in generator state g
RandInt(g) == g

\* np.sin by its power series
RECURSIVE SinSeries(_, _, _, _)
SinSeries(z, term, k, acc) ==
  IF term = 0 \/ k > 40 THEN acc
  ELSE LET nt == FNeg(RoundDiv(FMul(FMul(term, z), z), (2 * k) * (2 * k + 1)))
       IN  SinSeries(z, nt, k + 1, FAdd(acc, nt))

FSin(z) == IF ~IsFinite(z) THEN NaN ELSE SinSeries(z, z, 1, z)

PiFx == FxLit(31416, 10000)

KernelR == FxLit(378, 100)
KernelTolerance == FxLit(12, 100)
KernelAdapt == FxLit(1, 1000)
Lambda0 == FxLit(1, 10)

\* lines 68-70: compute_lambda(beta, beta0=0.6)
compute_lambda(lam0, beta) ==
  FMul(lam0, FAdd(ONE, FMul(FxLit(1, 10), FDiv(beta, FxLit(6, 10)))))

\* lines 87-89: the locals of run_kernel before its loop, x0 and x1 being the
\* next two deviates of the shared generator in state g
KernelStart(g, r) ==
  [r |-> r, x0 |-> RandUniform(g), x1 |-> RandUniform(RngNext(g)),
   meanE |-> ZERO, E_trace0 |-> <<>>, E_trace1 |-> <<>>]

\* lines 96-104: the rest of an iteration, once x0 and x1 are updated
KernelEnergies(k, x0, x1, E0, E1, tolerance, adapt) ==
  [r |-> IF FGt(FAbs(FSub(E0, E1)), tolerance) THEN FMul(k.r, FSub(ONE, adapt)) ELSE k.r,
   x0 |-> x0, x1 |-> x1,
   meanE |-> FAdd(FMul(FSub(ONE, adapt), k.meanE),
                  FMul(adapt, FDiv(FAdd(E0, E1), IntToFx(2)))),
   E_trace0 |-> Append(k.E_trace0, E0),
   E_trace1 |-> Append(k.E_trace1, E1)]

KernelSquares(k, x0, x1, tolerance, adapt) ==
  KernelEnergies(k, x0, x1, FMul(x0, x0), FMul(x1, x1), tolerance, adapt)

\* lines 92-104: one iteration of the loop of run_kernel on its locals k
KernelStep(k, tolerance, adapt) ==
  KernelSquares(k, Clip(FMul(FMul(k.r, k.x0), FSub(ONE, k.x0)), ZERO, ONE),
                Clip(FMul(FMul(k.r, k.x1), FSub(ONE, k.x1)), ZERO, ONE),
                tolerance, adapt)

\* line 113: alpha
KernelAlpha(E_trace0) ==
  FMul(FMean(SubSeq(E_trace0, 1, Len(E_trace0) \div 3)), FxLit(1, 1000))

\* line 114: beta; E_trace0 + E_trace1 joins the two lists
KernelBeta(E_trace0, E_trace1) ==
  FAdd(FxLit(6, 10), FMul(FxLit(1, 10), FSin(FMul(FMean(E_trace0 \o E_trace1), PiFx))))

\* line 118: rel_drift of tail = E_trace0[steps//2:]
KernelRelDrift(tail) == FDiv(FStd(tail), FAdd(FMean(tail), FxLit(1, 100000000)))

\* lines 115, 119-129: the dictionary returned
KernelDict(lam0, alpha, beta, k, tail, rel_drift, tolerance) ==
  [alpha |-> alpha, beta |-> beta, lambda |-> compute_lambda(lam0, beta),
   trace |-> <<k.E_trace0, k.E_trace1>>, passed |-> FLt(rel_drift, tolerance),
   mean_energy |-> FMean(tail), max_drift |-> rel_drift]

KernelTail(E_trace0) == SubSeq(E_trace0, (Len(E_trace0) \div 2) + 1, Len(E_trace0))

\* lines 110-129: what run_kernel returns from its locals k after the loop
KernelReturned(lam0, k, tolerance) ==
  KernelDict(lam0, KernelAlpha(k.E_trace0), KernelBeta(k.E_trace0, k.E_trace1), k,
             KernelTail(k.E_trace0), KernelRelDrift(KernelTail(k.E_trace0)), tolerance)

MaxTransfusers == 2
Transfusers == 1..MaxTransfusers
MaxKernelSteps == 6
KernelStepsSet == {0, 3, MaxKernelSteps}
TfSeeds == {NoSeed, 0, 1, 2}
NoTransfuser == 0

InitTf ==
  /\ np_random \in 0..(RngModulus - 1)
  /\ tfPc = [o \in Transfusers |-> "absent"]
  /\ tfSeedArg = [o \in Transfusers |-> NoSeed]
  /\ tfSeed = [o \in Transfusers |-> NoSeed]
  /\ tfSteps \in KernelStepsSet
  /\ tfCur = NoTransfuser
  /\ tfK = <<>>
  /\ tfResult = [o \in Transfusers |-> <<>>]

\* line 62, "seed or ...": seed None and seed 0 are both falsy
SeedIsFalsy(seed) == seed = NoSeed \/ seed = 0

\* lines 60-65: Transfuser(seed=seed)
TransfuserInit(o) ==
  /\ tfCur = NoTransfuser
  /\ tfPc[o] = "absent"
  /\ \E seed \in TfSeeds :
        LET own == IF SeedIsFalsy(seed) THEN RandInt(np_random) ELSE seed
        IN  /\ tfSeedArg' = [tfSeedArg EXCEPT ![o] = seed]
            /\ tfSeed' = [tfSeed EXCEPT ![o] = own]
            /\ np_random' = RngSeeded(own)
  /\ tfPc' = [tfPc EXCEPT ![o] = "built"]
  /\ UNCHANGED <<tfSteps, tfCur, tfK, tfResult>>
  /\ UNCHANGED notTf

\* lines 78-89: o.run_kernel(steps=steps) is entered, other arguments default
RunKernelBegin(o) ==
  /\ tfCur = NoTransfuser
  /\ tfPc[o] = "built"
  /\ tfK' = KernelStart(np_random, KernelR)
  /\ np_random' = RngNext(RngNext(np_random))
  /\ tfCur' = o
  /\ tfPc' = [tfPc EXCEPT ![o] = "running"]
  /\ UNCHANGED <<tfSeedArg, tfSeed, tfSteps, tfResult>>
  /\ UNCHANGED notTf

\* lines 91-104: one iteration of the loop
KernelIter ==
  /\ tfCur # NoTransfuser
  /\ Len(tfK.E_trace0) < tfSteps
  /\ tfK' = KernelStep(tfK, KernelTolerance, KernelAdapt)
  /\ UNCHANGED <<np_random, tfPc, tfSeedArg, tfSeed, tfSteps, tfCur, tfResult>>
  /\ UNCHANGED notTf

\* lines 110-129: the loop is exhausted, run_kernel returns
KernelReturn ==
  /\ tfCur # NoTransfuser
  /\ Len(tfK.E_trace0) >= tfSteps
  /\ tfResult' = [tfResult EXCEPT ![tfCur] = KernelReturned(Lambda0, tfK, KernelTolerance)]
  /\ tfPc' = [tfPc EXCEPT ![tfCur] = "ran"]
  /\ tfCur' = NoTransfuser
  /\ tfK' = <<>>
  /\ UNCHANGED <<np_random, tfSeedArg, tfSeed, tfSteps>>
  /\ UNCHANGED notTf

NextTf ==
  \/ \E o \in Transfusers : TransfuserInit(o)
  \/ \E o \in Transfusers : RunKernelBegin(o)
  \/ KernelIter
  \/ KernelReturn
InitTfAll == InitTf /\ FirstIdle /\ DIdle /\ FilesIdle /\ TuneIdle /\ LogIdle /\ BatIdle /\ VizIdle
SpecTf == InitTfAll /\ [][NextTf]_vars

\* C16 (as stated): the result of Transfuser(seed=s).run_kernel(args) depends
\* only on s and args: two objects given the same seed return the same result
\* from the same call, whatever other Transfuser objects were constructed or
\* run between an object's construction and its run_kernel call.
C16_KernelDependsOnOwnSeedOnly ==
  \A o1 \in Transfusers, o2 \in Transfusers :
     (/\ tfPc[o1] = "ran" /\ tfPc[o2] = "ran"
      /\ tfSeedArg[o1] # NoSeed /\ tfSeedArg[o1] = tfSeedArg[o2]) =>
        tfResult[o1] = tfResult[o2]

(***************************************************************************)
(* The falsification battery  (run_all_falsifications.py)                   *)
(***************************************************************************)
\* lines 26-31
MODULES == <<"falsify_T_operator", "falsify_D_operator", "falsify_F_operator",
             "falsify_DF_operator">>

\* what a module run can do: the predicate returns True or False, raises, or
\* the module cannot be imported
ModuleOutcomes == {"true", "false", "raise", "import_error"}
\* elapsed seconds of one predicate call
ModuleTimes == {0, 1}
NoExit == 0 - 1

\* the slip "an exception raised by the predicate counts as a pass"
run_moduleRaisePasses(outcome, elapsed) ==
  IF outcome = "import_error" THEN <<FALSE, 0>>
  ELSE <<outcome \in {"true", "raise"}, elapsed>>

\* lines 34-59: run_module's return value <<ok, dt>> for an outcome
run_module(outcome, elapsed) ==
  IF outcome = "import_error" THEN <<FALSE, 0>>
  ELSE <<outcome = "true", elapsed>>

PyAny(results) == \E i \in 1..Len(results) : results[i]
\* line 76: all(results)
PyAll(results) == \A i \in 1..Len(results) : results[i]

InitBat ==
  /\ batPc = "loop"
  /\ batOutcomes = <<>>
  /\ batResults = <<>>
  /\ batCalled = <<>>
  /\ batTime = 0
  /\ batReport = "none"
  /\ batExit = NoExit

\* lines 68-71: one iteration of main's loop over MODULES
BatRunModule ==
  /\ batPc = "loop"
  /\ Len(batResults) < Len(MODULES)
  /\ \E outcome \in ModuleOutcomes, elapsed \in ModuleTimes :
        LET ret == run_module(outcome, elapsed)
        IN  /\ batOutcomes' = Append(batOutcomes, outcome)
            /\ batResults' = Append(batResults, ret[1])
            /\ batCalled' = Append(batCalled, MODULES[Len(batResults) + 1])
            /\ batTime' = batTime + ret[2]
  /\ UNCHANGED <<batPc, batReport, batExit>>
  /\ UNCHANGED notBat

\* lines 68, 73-75: the loop is exhausted
BatLoopEnd ==
  /\ batPc = "loop"
  /\ Len(batResults) = Len(MODULES)
  /\ batPc' = "summary"
  /\ UNCHANGED <<batOutcomes, batResults, batCalled, batTime, batReport, batExit>>
  /\ UNCHANGED notBat

\* lines 76-80 and 83-84: the summary line, then sys.exit(1) or the normal end
BatSummary ==
  /\ batPc = "summary"
  /\ IF PyAll(batResults)
     THEN batReport' = "all_passed" /\ batExit' = 0
     ELSE batReport' = "some_passed" /\ batExit' = 1
  /\ batPc' = "exited"
  /\ UNCHANGED <<batOutcomes, batResults, batCalled, batTime>>
  /\ UNCHANGED notBat

NextBat == BatRunModule \/ BatLoopEnd \/ BatSummary
InitBatAll == InitBat /\ FirstIdle /\ DIdle /\ FilesIdle /\ TuneIdle /\ LogIdle /\ TfIdle /\ VizIdle
SpecBat == InitBatAll /\ [][NextBat]_vars

\* C17: main runs all four predicates; it reports the aggregate pass exactly
\* when each of the four returned a true value, and the process exits with a
\* non-zero status if and only if at least one check failed.
C17_AggregatePassAndExitStatus ==
  batExit # NoExit =>
     /\ Len(batOutcomes) = Len(MODULES)
     /\ batReport = "all_passed" <=> (\A i \in 1..Len(MODULES) : batOutcomes[i] = "true")
     /\ batExit # 0 <=> (\E i \in 1..Len(MODULES) : batOutcomes[i] # "true")

\* C17 witness: the battery has exited with status 1 after a run in which
\* exactly one of the four module runs failed
C17_Witness ==
  /\ batExit = 1
  /\ Cardinality({i \in 1..Len(batOutcomes) : batOutcomes[i] # "true"}) = 1

\* the module runs that ended in an import error or a raised exception
BatErrored == {i \in 1..Len(batOutcomes) : batOutcomes[i] \in {"raise", "import_error"}}

\* C26: an import error or an exception raised by one predicate is counted
\* as a failure of that check only: whatever the earlier outcomes were, the
\* loop goes on to call the next predicate, always in the fixed order T, D, F,
\* DF, each other check keeps its own result, and after an errored check the
\* aggregate result is a failure with a non-zero exit status.
C26_ErrorFailsOneCheckOnly ==
  /\ [](/\ batCalled = SubSeq(MODULES, 1, Len(batCalled))
        /\ Len(batResults) = Len(batCalled)
        /\ \A i \in 1..Len(batResults) : batResults[i] = (batOutcomes[i] = "true"))
  /\ [](batPc \in {"summary", "exited"} => batCalled = MODULES)
  /\ []((batPc = "exited" /\ BatErrored # {}) =>
           /\ batReport = "some_passed"
           /\ batExit # 0)
  /\ [][batPc = "loop" => batPc' = "loop" \/ Len(batCalled) = Len(MODULES)]_vars

\* C26 witness: the battery has exited after the first module failed to import
\* and the second predicate raised, and the last two predicates passed
C26_Witness ==
  /\ batPc = "exited"
  /\ Len(batOutcomes) = Len(MODULES)
  /\ batOutcomes[1] = "import_error"
  /\ batOutcomes[2] = "raise"
  /\ batResults = <<FALSE, FALSE, TRUE, TRUE>>
  /\ batExit = 1

(***************************************************************************)
(* Readers of the tuning log  (visualizer.py, visualizer_release.py)        *)
(* A log file is its header line followed by data lines; a data line is     *)
(* modelled by its number of fields.  pandas.read_csv is modelled by its    *)
(* documented treatment of the field count: a line with more fields than    *)
(* the header is a bad line (on_bad_lines: "error" raises ParserError,      *)
(* "skip" drops the line); a line with fewer fields is kept, its missing    *)
(* fields read as NaN.                                                      *)
(***************************************************************************)
\* logger.py:32-41: the columns of a log row
LogFields == 8
MaxLogRows == 3
LineWidths == {LogFields - 1, LogFields, LogFields + 1}
VizContents == UNION {[1..k -> LineWidths] : k \in 0..MaxLogRows}
VizFiles == {MissingFile} \cup {FileOf(c) : c \in VizContents}

RECURSIVE LinesKept(_, _)
LinesKept(content, i) ==
  IF i > Len(content) THEN <<>>
  ELSE (IF content[i] > LogFields THEN <<>> ELSE <<i>>) \o LinesKept(content, i + 1)

\* pd.read_csv(csv_path, on_bad_lines=on_bad_lines)
read_csv(content, on_bad_lines) ==
  IF on_bad_lines = "error" /\ \E i \in 1..Len(content) : content[i] > LogFields
  THEN [raised |-> TRUE, df |-> <<>>]
  ELSE [raised |-> FALSE, df |-> LinesKept(content, 1)]

\* the body shared by the two readers: existence check, read_csv, df.empty, plot
ReadAndPlot(on_bad_lines) ==
  IF ~vizFile.exists THEN vizOutcome' = "no_history" /\ vizRows' = <<>>
  ELSE LET rd == read_csv(vizFile.content, on_bad_lines)
       IN  IF rd.raised THEN vizOutcome' = "ParserError" /\ vizRows' = <<>>
           ELSE IF rd.df = <<>> THEN vizOutcome' = "empty" /\ vizRows' = <<>>
           ELSE vizOutcome' = "plotted" /\ vizRows' = rd.df

InitViz ==
  /\ vizPc = "start"
  /\ vizFile \in VizFiles
  /\ vizReader = "none"
  /\ vizOutcome = "none"
  /\ vizRows = <<>>

\* visualizer.py:8-33: plot_history(csv_path)
PlotHistory ==
  /\ vizPc = "start"
  /\ vizReader' = "plot_history"
  /\ ReadAndPlot("skip")
  /\ vizPc' = "returned"
  /\ UNCHANGED vizFile
  /\ UNCHANGED notViz

\* visualizer_release.py:21-75: plot_release_annotated(csv_path)
PlotReleaseAnnotated ==
  /\ vizPc = "start"
  /\ vizReader' = "plot_release_annotated"
  /\ ReadAndPlot("error")
  /\ vizPc' = "returned"
  /\ UNCHANGED vizFile
  /\ UNCHANGED notViz

NextViz == PlotHistory \/ PlotReleaseAnnotated
InitVizAll == InitViz /\ FirstIdle /\ DIdle /\ FilesIdle /\ TuneIdle /\ LogIdle /\ TfIdle /\ BatIdle
SpecViz == InitVizAll /\ [][NextViz]_vars

\* the data lines with exactly the header's number of fields
WellFormedLines(content) == {i \in 1..Len(content) : content[i] = LogFields}

\* C18 (as stated): every reader of the tuning log skips a malformed row (one
\* with the wrong number of fields) and continues with the remaining rows: it
\* does not abort with an error, and the rows it uses are the well-formed ones.
C18_ReadersSkipMalformedRows ==
  (vizPc = "returned" /\ vizFile.exists) =>
     /\ vizOutcome # "ParserError"
     /\ {vizRows[j] : j \in 1..Len(vizRows)} = WellFormedLines(vizFile.content)

(***************************************************************************)
(* What a falsification predicate hands back when its check fires           *)
(* (test_DF_coupling_variation.py:51-60; the same shape at                  *)
(* test_F_false_chaos_amplification.py:43-47 and                            *)
(* test_D_decoherence_violation.py:33-35)                                   *)
(***************************************************************************)
\* the values a predicate returns are the Python constants True and False
PyBools == {"True", "False"}

\* the fields a returned value carries: a Python bool carries none
ResultFields(ret) == IF ret \in PyBools \cup {"none"} THEN {} ELSE DOMAIN ret

\* falsify_DF_operator has found one of its two invariants violated
DfViolationDetected == dfPc = "done" /\ dfWhy \in {"energy", "corr"}

\* C19 (as stated): when a falsification predicate detects a violated
\* invariant it returns a structured false result that carries the offending
\* metric (the measured energy deviation or correlation value).
C19_FalseResultCarriesMetric ==
  DfViolationDetected =>
     /\ dfResult # "True"
     /\ "metric" \in ResultFields(dfResult)
     /\ dfResult.metric = dfMetric

====
